---- MODULE Spec2Model ----
(***************************************************************************)
(* Workflow engine and multi-agent dispatcher of the orchestrator.         *)
(*                                                                         *)
(* WorkflowEngine.execute runs a registered workflow definition step by    *)
(* step; executeStep dispatches one step to the orchestrator and hands a   *)
(* failed attempt to retryStep when the step carries a retry policy.       *)
(* MultiAgentOrchestrator.executeParallel dispatches one prompt to a list  *)
(* of agent names.                                                         *)
(*                                                                         *)
(* Step names are the positions 1..n of the steps in their workflow; a     *)
(* branch target 0 stands for an absent field and n+1 for a name that no   *)
(* step of the workflow carries.  Array indices are 1-based here and       *)
(* 0-based in the source, so "i = index - 1; i++" reads "i' = index".      *)
(***************************************************************************)
EXTENDS Integers, Sequences, FiniteSets, TLC

\* ------------------------------------------------------------------ bounds
MaxSteps == 2        \* steps per workflow definition
MaxIter == 2         \* largest settings.maxIterations (0 stands for absent)
MaxAttempts == 2     \* largest retry.attempts
MaxFeatures == 2     \* optional step fields set in one workflow definition
MaxAgents == 3       \* agent names in one parallel dispatch
MaxSize == 2         \* largest options.maxSize of a cache
MaxTtl == 1          \* options.ttl of a cache, in clock ticks
MaxTime == 2         \* clock ticks in one run
MaxReads == 1        \* counted cache reads (hits + misses) in one run
MaxSpawns == 2       \* agent processes spawned in one run
MaxAge == 1          \* ProcessMonitor.maxProcessAge, in clock ticks
MaxRetries == 3      \* largest config.maxRetries (0 stands for absent)
MaxMessages == 3     \* messages enqueued in one run

\* ------------------------------------------------------- program constants
DefaultDelay == 1000     \* retryConfig.delay || 1000
DefaultBackoff == 2      \* retryConfig.backoffFactor || 2
DefaultTtl == 300000     \* options.ttl || 300000
MaxCpuUsage == 50
DefaultMaxRetries == 3   \* config.maxRetries || 3
DefaultRetryDelay == 1000  \* config.retryDelay || 1000
DefaultMaxSize == 100    \* options.maxSize || 100

\* agentRegistry after initializeAgents
RegisteredAgents == {"claude", "gemini"}

VARIABLES
  workflows,       \* WorkflowEngine.workflows: name -> definition
  workflowName,    \* argument of execute
  pc,              \* position of the execute call
  i,               \* loop variable of execute (1-based)
  status,          \* execution.status ("none": no Execution object yet)
  steps,           \* execution.steps
  thrown,          \* error execute has thrown to its caller
  pending,         \* StepResult executeStep is about to return
  attempt,         \* loop variable of retryStep
  tries,           \* dispatch attempts made for the current step
  waits,           \* delays waited for the current step
  dispatchFailed,  \* some dispatch attempt of this execution has failed
  context,         \* execution.context
  initialContext,  \* the caller's object passed to execute as initialContext
  agentNames,      \* argument of executeParallel
  mode,            \* aggregation mode of the parallel request
  outcomes,        \* how each agent's execute settles
  settleOrder,     \* request positions of the agents whose promise has settled, in time order
  parPc,           \* position of the handleOrchestrateParallel call
  response,        \* what handleOrchestrateParallel returned
  cache,           \* ResponseCache.cache: the Map's entries in insertion order
  ttl,             \* ResponseCache.ttl
  maxSize,         \* ResponseCache.maxSize
  hits,            \* ResponseCache.hits
  misses,          \* ResponseCache.misses
  now,             \* Date.now()
  fifo,            \* the keys present, in the order they were inserted
  setLog,          \* the keys set since the cache was empty, while nothing else removed one
  agents,          \* AgentRegistry.agents: the Map's entries in insertion order
  firstRegistered, \* per name, the agent of the first register call made with it
  lastRegister,    \* the latest register call and whether it threw
  cli,             \* MultiAgentOrchestrator.cli: the default agent
  dPc,             \* position of the dispatch in flight
  call,            \* the latest dispatch: its arguments, the agent invoked, the outcome
  storedBy,        \* per cache key, the dispatch whose result setTask stored last
  spawned,         \* processes spawned so far
  capReply,        \* what handleGetCapabilities returned, with the requirements it was given
  activeProcesses, \* ProcessMonitor.activeProcesses: pid -> record
  children,        \* the child processes spawned, by pid, each with its adapter call
  killTimers,      \* pids with a pending force-kill timer of emergencyKill
  resilient,       \* the ResilientOrchestrator and its processUserRequest call
  messages,        \* MessageQueue.messages
  waiter           \* the waitForCompletion call: its listeners and its promise

engineVars == <<workflows, workflowName, pc, i, status, steps, thrown,
                pending, attempt, tries, waits, dispatchFailed,
                context, initialContext>>
parallelVars == <<agentNames, mode, outcomes, settleOrder, parPc, response>>
cacheVars == <<cache, ttl, maxSize, hits, misses, now, fifo, setLog>>
registryVars == <<agents, firstRegistered, lastRegister>>
dispatchVars == <<cli, dPc, call, storedBy, spawned>>
serverVars == <<capReply>>
processVars == <<activeProcesses, children, killTimers>>
resilientVars == <<resilient>>
queueVars == <<messages, waiter>>
vars == <<workflows, workflowName, pc, i, status, steps, thrown,
          pending, attempt, tries, waits, dispatchFailed,
          context, initialContext,
          agentNames, mode, outcomes, settleOrder, parPc, response,
          cache, ttl, maxSize, hits, misses, now, fifo, setLog,
          agents, firstRegistered, lastRegister,
          cli, dPc, call, storedBy, spawned,
          capReply, activeProcesses, children, killTimers, resilient,
          messages, waiter>>

\* ------------------------------------------------------------ definitions
NoRetry == [attempts |-> 0, delay |-> 0, backoffFactor |-> 0]

\* retry policies a step may carry; delay/backoffFactor 0 stand for absent
RetryPolicies ==
  {NoRetry} \cup
  [attempts : 1..MaxAttempts, delay : {100}, backoffFactor : {2}] \cup
  [attempts : {MaxAttempts}, delay : {0}, backoffFactor : {0}]

StepAgents == {"gemini", "ghost"}

Targets(n) == 0..(n + 1)

\* step.condition: absent, "context => context.flag" or "context => context[0]"
Conditions == {"none", "flag", "first"}

\* the aggregation modes of a parallel dispatch
Modes == {"all", "race", "vote"}

\* the step definitions a workflow of n steps can carry at position k.  A
\* step's agent is a name, "none" when the step has no agent, or "array" when
\* it is an array of names, which agentList then holds.
StepDefinitions(n, k) ==
  [name : {k}, agent : StepAgents, stopOnError : BOOLEAN, validate : BOOLEAN,
   retry : RetryPolicies, loop_to : Targets(n), onSuccess : Targets(n),
   onFailure : Targets(n), condition : {"none"}, parallel : {FALSE},
   mode : {"none"}, agentList : {<<>>}]

Bit(b) == IF b THEN 1 ELSE 0

\* number of optional fields a step definition sets
Features(s) ==
  Bit(s.agent # "gemini") + Bit(s.stopOnError) + Bit(s.validate) +
  Bit(s.retry # NoRetry) + Bit(s.loop_to # 0) + Bit(s.onSuccess # 0) +
  Bit(s.onFailure # 0)

\* the step definitions at position k that set exactly f optional fields
ByCost(n, k, f) == {t \in StepDefinitions(n, k) : Features(t) = f}

RECURSIVE Sum(_, _)
Sum(f, k) == IF k = 0 THEN 0 ELSE f[k] + Sum(f, k - 1)

\* The workflow definitions of the model have up to MaxSteps steps and set at
\* most MaxFeatures optional fields (settings.maxIterations among them);
\* Spreads gives the ways to spread such a budget over n steps.
Spreads(n, budget) == {f \in [1..n -> 0..budget] : Sum(f, n) <= budget}

\* the first k steps of the n-step workflows whose step j sets f[j] fields
RECURSIVE Prod(_, _, _)
Prod(n, k, f) ==
  IF k = 0 THEN {<<>>}
  ELSE {Append(w, s) : w \in Prod(n, k - 1, f), s \in ByCost(n, k, f[k])}

\* a JavaScript string as a value of the model: it is what Entry makes of
\* an agent's output
StringValue(text) == [error |-> FALSE, agent |-> "none", output |-> text]

\* an object without properties
NoProperties == <<>>

\* the value undefined as the output of a StepResult; an output is a string
\* (text), an array (items) or the object {output: text}
UndefinedOutput == [kind |-> "undefined", text |-> "", items |-> <<>>]

NoResult == [name |-> 0, status |-> "none", error |-> "none",
             output |-> UndefinedOutput]

\* Results of an execution the model retains.  Under an iteration cap the
\* engine ends the loop before any step exceeds the cap, so the whole of
\* execution.steps fits with room to spare; without a cap, where the engine
\* never counts results, the model keeps only the most recent ones.
RunCap(workflow) == Len(workflow.steps) * (workflow.maxIterations + 1) + 1

RECURSIVE Pow(_, _)
Pow(b, e) == IF e = 0 THEN 1 ELSE b * Pow(b, e - 1)

OrDefault(v, d) == IF v = 0 THEN d ELSE v

\* retryStep: delayMs
DelayMs(retryConfig, k) ==
  OrDefault(retryConfig.delay, DefaultDelay) *
    Pow(OrDefault(retryConfig.backoffFactor, DefaultBackoff), k - 1)

\* one element of the array executeParallel resolves to: the agent's output,
\* or the tagged entry {error, agent} its catch handler builds
Entry(agentName, outcome) ==
  IF outcome = "fail"
  THEN [error |-> TRUE, agent |-> agentName, output |-> "none"]
  ELSE [error |-> FALSE, agent |-> "none", output |-> outcome]

\* executeParallel: agentNames.map(getAgent).filter(Boolean), then one promise
\* per remaining agent, gathered by Promise.all in array order
RECURSIVE ExecuteParallelResults(_, _)
ExecuteParallelResults(names, outs) ==
  IF names = <<>> THEN <<>>
  ELSE (IF Head(names) \in RegisteredAgents
        THEN <<Entry(Head(names), Head(outs))>>
        ELSE <<>>) \o ExecuteParallelResults(Tail(names), Tail(outs))

\* what the agents of the model print, and the input of the workflow
AgentText(agentName) == IF agentName = "claude" THEN "a" ELSE "bc"

Input == "in"

\* the characters of a text
Characters(text) ==
  IF text = "a" THEN <<"a">>
  ELSE IF text = "bc" THEN <<"b", "c">>
  ELSE <<>>

\* the property names of the indices 0, 1, 2, ...
IndexKeys == <<"0", "1", "2", "3">>

\* how one dispatch of a step can settle (executeParallel, executeWithAgent
\* or no dispatch at all, then validate)
DispatchOutcomes(step) ==
  (IF step.parallel /\ step.agent = "array"
   THEN (IF \A k \in 1..Len(step.agentList) : step.agentList[k] \notin RegisteredAgents
         THEN {"NoValidAgents"}
         ELSE {"ok", "FirstRejected", "AllRejected"})
   ELSE IF step.agent = "none" THEN {"ok"}
   ELSE IF step.agent \notin RegisteredAgents THEN {"AgentNotFound"}
   ELSE {"ok", "ProcessExitError"})
  \cup (IF step.validate /\ (step.agent \in RegisteredAgents \cup {"none"}
                             \/ (step.parallel /\ step.agent = "array"
                                   /\ \E k \in 1..Len(step.agentList) :
                                        step.agentList[k] \in RegisteredAgents))
        THEN {"ValidationFailed"} ELSE {})

\* the outcomes with which the dispatch returns a result that passes validate
Resolves(outcome) == outcome \in {"ok", "FirstRejected", "AllRejected"}

\* how agent.execute settles for each name of a parallel step
ParallelOutcomes(names, outcome) ==
  [k \in 1..Len(names) |->
     IF outcome = "AllRejected" \/ (outcome = "FirstRejected" /\ k = 1)
     THEN "fail"
     ELSE AgentText(names[k])]

\* executeStep, lines 105-127 and 140: "output: result"
StepOutput(step, outcome) ==
  IF step.parallel /\ step.agent = "array"
  THEN [kind |-> "array", text |-> "",
        items |-> ExecuteParallelResults(step.agentList,
                                         ParallelOutcomes(step.agentList, outcome))]
  ELSE IF step.agent = "none"
  THEN [kind |-> "object", text |-> Input, items |-> <<>>]
  ELSE [kind |-> "string", text |-> AgentText(step.agent), items |-> <<>>]

\* variant: the result is returned without a look at the validator
ExecuteStepUnvalidated(step, outcome) ==
  IF Resolves(outcome) \/ outcome = "ValidationFailed"
  THEN [name |-> step.name, status |-> "success", error |-> "none",
        output |-> StepOutput(step, "ok")]
  ELSE IF step.retry.attempts > 0
       THEN [name |-> step.name, status |-> "retry", error |-> outcome,
             output |-> UndefinedOutput]
       ELSE [name |-> step.name, status |-> "failed", error |-> outcome,
             output |-> UndefinedOutput]

\* executeStep: the StepResult it returns, or status "retry" when its catch
\* block hands the error to retryStep
ExecuteStep(step, outcome) ==
  IF Resolves(outcome)
  THEN [name |-> step.name, status |-> "success", error |-> "none",
        output |-> StepOutput(step, outcome)]
  ELSE IF step.retry.attempts > 0
       THEN [name |-> step.name, status |-> "retry", error |-> outcome,
             output |-> UndefinedOutput]
       ELSE [name |-> step.name, status |-> "failed", error |-> outcome,
             output |-> UndefinedOutput]

\* variant: a condition never skips its step
SkipsNever(step, ctx) == FALSE

\* "step.condition && !step.condition(execution.context)", line 39
Skips(step, ctx) ==
  \/ step.condition = "flag" /\ "flag" \notin DOMAIN ctx
  \/ step.condition = "first" /\ "0" \notin DOMAIN ctx

\* the own enumerable properties a spread copies: the characters of a string
\* and the elements of an array under their indices, the properties of an
\* object, nothing of undefined
OwnProperties(output) ==
  LET list == IF output.kind = "string"
              THEN [k \in 1..Len(Characters(output.text)) |->
                      StringValue(Characters(output.text)[k])]
              ELSE IF output.kind = "array" THEN output.items
              ELSE <<>>
  IN IF output.kind = "object"
     THEN [k \in {"output"} |-> StringValue(output.text)]
     ELSE [k \in {IndexKeys[n] : n \in 1..Len(list)} |->
             list[CHOOSE n \in 1..Len(list) : IndexKeys[n] = k]]

\* variant: of two properties of the same name the earlier one is kept
SpreadKeepsEarlier(a, b) ==
  [k \in DOMAIN a \cup DOMAIN b |-> IF k \in DOMAIN a THEN a[k] ELSE b[k]]

\* "{ ...a, ...b }" of two objects
Spread(a, b) ==
  [k \in DOMAIN a \cup DOMAIN b |-> IF k \in DOMAIN b THEN b[k] ELSE a[k]]

\* "execution.context = { ...execution.context, ...stepResult.output }", line 48
MergeOutput(ctx, output) == Spread(ctx, OwnProperties(output))

\* retryStep: stepWithoutRetry
StepWithoutRetry(step) == [step EXCEPT !.retry = NoRetry]

\* findStepIndex
StepExists(workflow, stepName) ==
  \E k \in 1..Len(workflow.steps) : workflow.steps[k].name = stepName

FindStepIndex(workflow, stepName) ==
  CHOOSE k \in 1..Len(workflow.steps) :
    /\ workflow.steps[k].name = stepName
    /\ \A j \in 1..(k - 1) : workflow.steps[j].name # stepName

\* execution.steps.filter(s => s.name === step.name).length
RECURSIVE LoopCount(_, _)
LoopCount(log, name) ==
  IF log = <<>> THEN 0
  ELSE Bit(Head(log).name = name) + LoopCount(Tail(log), name)

\* variant: the StepResult is put in front of the log
PushFront(workflow, log, r) ==
  IF Len(log) < RunCap(workflow) THEN <<r>> \o log ELSE <<r>> \o Tail(log)

\* execution.steps.push(stepResult)
Push(workflow, log, r) ==
  IF Len(log) < RunCap(workflow) THEN Append(log, r) ELSE Append(Tail(log), r)

\* ------------------------------------------------- WorkflowEngine.execute
\* the definition the running execute call works on
Workflow == workflows[workflowName]

\* variant: every failed step stops the workflow, with or without stopOnError
StopsOnAnyFailure(step, res) == res.status = "failed"

\* "if (stepResult.status === 'failed' && step.stopOnError)"
StopsOnError(step, res) == res.status = "failed" /\ step.stopOnError

\* "if (step.loop_to && stepResult.status !== 'failed')"
LoopApplies(step, res) == step.loop_to # 0 /\ res.status # "failed"

\* variant: the cap test written with "<=" in place of "<"
UnderCapInclusive(loopCount, maxIterations) ==
  maxIterations = 0 \/ loopCount <= maxIterations

\* "!workflow.settings?.maxIterations || loopCount < maxIterations"
UnderCap(loopCount, maxIterations) ==
  maxIterations = 0 \/ loopCount < maxIterations

\* "if (workflow.settings?.maxIterations) { if (loopCount >= maxIterations) break }"
CapReached(loopCount, maxIterations) ==
  maxIterations # 0 /\ loopCount >= maxIterations

\* the branch target the navigation block looks up (0: none)
NavigateTarget(step, res) ==
  IF res.status = "success" /\ step.onSuccess # 0 THEN step.onSuccess
  ELSE IF res.status = "failed" /\ step.onFailure # 0 THEN step.onFailure
  ELSE 0

\* variant: the loop variable advanced twice
NextSequentialTwice(j) == j + 2

\* "i++" of the for loop
NextSequential(j) == j + 1

\* flow control of execute after a StepResult was pushed onto log:
\* kind "fail" (stopOnError break), "throw" (findStepIndex threw),
\* "break" (iteration cap) or "goto" (the for loop goes on at index next)
FlowControl(workflow, j, res, log) ==
  LET step == workflow.steps[j]
      loopCount == LoopCount(log, step.name)
      target == NavigateTarget(step, res)
  IN IF StopsOnError(step, res) THEN [kind |-> "fail", next |-> j]
     ELSE IF LoopApplies(step, res) /\ ~StepExists(workflow, step.loop_to)
          THEN [kind |-> "throw", next |-> j]
     ELSE IF LoopApplies(step, res) /\ UnderCap(loopCount, workflow.maxIterations)
          THEN [kind |-> "goto", next |-> FindStepIndex(workflow, step.loop_to)]
     ELSE IF target # 0 /\ ~StepExists(workflow, target)
          THEN [kind |-> "throw", next |-> j]
     ELSE IF CapReached(loopCount, workflow.maxIterations)
          THEN [kind |-> "break", next |-> j]
     ELSE IF target # 0
          THEN [kind |-> "goto", next |-> FindStepIndex(workflow, target)]
     ELSE [kind |-> "goto", next |-> NextSequential(j)]

\* the for loop's test "i < workflow.steps.length" at index j
LoopTest(workflow, j) ==
  IF j <= Len(workflow.steps) THEN "executeStep" ELSE "finish"

\* variant: "execution.status = 'completed'" whatever the status was
CompletedStatusAlways(st) == "completed"

\* "execution.status = execution.status === 'running' ? 'completed' : execution.status"
CompletedStatus(st) == IF st = "running" THEN "completed" ELSE st

\* variant: the catch block rethrows without marking the Execution
ErrorStatusUnmarked == "running"

\* catch block of execute: "execution.status = 'error'"
ErrorStatus == "error"

\* what get returns for a key it does not serve: null
Absent == "null"

\* capabilities of src/cli/configs, in hundredths
ClaudeCapabilities ==
  [planning |-> 95, execution |-> 85, review |-> 90, languages |-> {},
   contextWindow |-> 0]

GeminiCapabilities ==
  [planning |-> 85, execution |-> 95, review |-> 80, languages |-> {},
   contextWindow |-> 0]

AgentNames == {"claude", "gemini", "universal"}

\* initializeAgents: register('claude', claudeCLI, ...), register('gemini', geminiCLI, ...)
InitializedAgents ==
  <<[name |-> "claude", agent |-> "claude", capabilities |-> ClaudeCapabilities],
    [name |-> "gemini", agent |-> "gemini", capabilities |-> GeminiCapabilities]>>

NoRegister == [name |-> "none", agent |-> "none", threw |-> FALSE]

\* the registry of a MultiAgentOrchestrator after its constructor
registryIdle ==
  /\ agents = InitializedAgents
  /\ firstRegistered = [n \in AgentNames |->
                          IF n \in RegisteredAgents THEN n ELSE "undefined"]
  /\ lastRegister = [name |-> "gemini", agent |-> "gemini", threw |-> FALSE]

NoCall == [target |-> "none", role |-> "none", prompt |-> <<>>, agent |-> "none",
           result |-> "none", fromCache |-> FALSE, spawn |-> FALSE]

\* a call without requirements
NoRequirements ==
  [given |-> FALSE, role |-> "none", language |-> "none", contextSize |-> 0,
   complexity |-> "none"]

\* no get_capabilities call has been answered
serverIdle == capReply = [requirements |-> NoRequirements, recommendations |-> <<>>]

\* no child process was spawned and the monitor's table is empty
processIdle ==
  /\ activeProcesses = <<>>
  /\ children = <<>>
  /\ killTimers = {}

NoResilient ==
  [maxRetries |-> 0, retryDelay |-> 0, pc |-> "off", i |-> 0,
   lastError |-> "undefined", attempts |-> 0, errors |-> <<>>, waits |-> <<>>,
   restarts |-> <<>>, outcome |-> [kind |-> "none", value |-> "undefined"]]

\* no ResilientOrchestrator exists
resilientIdle == resilient = NoResilient

\* a waitForCompletion call that has not been made
NoWaiter ==
  [id |-> 0, state |-> "none", onCompleted |-> FALSE, onFailed |-> FALSE,
   outcome |-> [kind |-> "none", of |-> 0]]

\* no MessageQueue is in use
queueIdle == messages = <<>> /\ waiter = NoWaiter

\* the components the multi-agent orchestrator does not own are unused
othersIdle == serverIdle /\ processIdle /\ resilientIdle /\ queueIdle

\* no dispatch is made
dispatchIdle ==
  /\ cli = "gemini"
  /\ dPc = "off"
  /\ call = NoCall
  /\ storedBy = <<>>
  /\ spawned = 0

\* a ResponseCache built without options on which nothing is called
cacheIdle ==
  /\ cache = <<>>
  /\ ttl = DefaultTtl
  /\ maxSize = DefaultMaxSize
  /\ hits = 0
  /\ misses = 0
  /\ now = 0
  /\ fifo = <<>>
  /\ setLog = <<>>

parallelIdle ==
  /\ agentNames = <<>>
  /\ mode = "all"
  /\ outcomes = <<>>
  /\ settleOrder = <<>>
  /\ parPc = "off"
  /\ response = [success |-> FALSE, error |-> "none", results |-> <<>>,
                 totalResults |-> 0]

Init ==
  /\ \E n \in 1..MaxSteps, m \in 0..MaxIter :
       \E f \in Spreads(n, MaxFeatures - Bit(m # 0)) :
         \E list \in Prod(n, n, f) :
           /\ workflows = [name \in {"wf"} |-> [steps |-> list, maxIterations |-> m]]
           /\ workflowName \in
                (IF m = 0 /\ Sum(f, n) = 0 THEN {"wf", "nope"} ELSE {"wf"})
  /\ pc = "idle"
  /\ i = 0
  /\ status = "none"
  /\ steps = <<>>
  /\ thrown = "none"
  /\ pending = NoResult
  /\ attempt = 0
  /\ tries = 0
  /\ waits = <<>>
  /\ dispatchFailed = FALSE
  /\ context = NoProperties
  /\ initialContext = NoProperties
  /\ parallelIdle
  /\ cacheIdle
  /\ registryIdle
  /\ dispatchIdle
  /\ othersIdle

\* execute, lines 17-35: look the workflow up, create the Execution, enter the loop
Execute ==
  /\ pc = "idle"
  /\ IF workflowName \notin DOMAIN workflows
     THEN /\ thrown' = "WorkflowNotFound"
          /\ pc' = "rejected"
          /\ UNCHANGED <<status, i, context>>
     ELSE /\ status' = "running"
          /\ context' = Spread(NoProperties, initialContext)
          /\ i' = 1
          /\ pc' = LoopTest(Workflow, 1)
          /\ UNCHANGED thrown
  /\ UNCHANGED <<workflows, workflowName, steps, pending, attempt, tries,
                 waits, dispatchFailed, initialContext>>
  /\ UNCHANGED <<parallelVars, cacheVars, registryVars, dispatchVars,
               serverVars, processVars, resilientVars, queueVars>>

\* execute, lines 36-44, with executeStep, lines 96-155: the condition of
\* the step at index i, then its first dispatch
ExecuteStepCall ==
  /\ pc = "executeStep"
  /\ IF Skips(Workflow.steps[i], context)
     THEN /\ i' = NextSequential(i)
          /\ pc' = LoopTest(Workflow, NextSequential(i))
          /\ UNCHANGED <<tries, waits, dispatchFailed, attempt, pending>>
     ELSE /\ \E outcome \in DispatchOutcomes(Workflow.steps[i]) :
               LET r == ExecuteStep(Workflow.steps[i], outcome)
               IN /\ tries' = 1
                  /\ waits' = <<>>
                  /\ dispatchFailed' = (dispatchFailed \/ outcome # "ok")
                  /\ IF r.status = "retry"
                     THEN /\ attempt' = 1
                          /\ pending' = NoResult
                          /\ pc' = "retryStep"
                     ELSE /\ attempt' = 0
                          /\ pending' = r
                          /\ pc' = "record"
          /\ UNCHANGED i
  /\ UNCHANGED <<workflows, workflowName, status, steps, thrown, context,
                 initialContext>>
  /\ UNCHANGED <<parallelVars, cacheVars, registryVars, dispatchVars,
               serverVars, processVars, resilientVars, queueVars>>

\* retryStep, lines 162-165 and 183-188: the loop test, then the wait
RetryDelay ==
  /\ pc = "retryStep"
  /\ LET retryConfig == Workflow.steps[i].retry
     IN IF attempt <= retryConfig.attempts
        THEN /\ waits' = Append(waits, DelayMs(retryConfig, attempt))
             /\ pc' = "retryAttempt"
             /\ UNCHANGED pending
        ELSE /\ pending' = [name |-> Workflow.steps[i].name, status |-> "failed",
                            error |-> "RetriesExhausted",
                            output |-> UndefinedOutput]
             /\ pc' = "record"
             /\ UNCHANGED waits
  /\ UNCHANGED <<workflows, workflowName, i, status, steps, thrown, attempt,
                 tries, dispatchFailed, context, initialContext>>
  /\ UNCHANGED <<parallelVars, cacheVars, registryVars, dispatchVars,
               serverVars, processVars, resilientVars, queueVars>>

\* retryStep, lines 167-180: "return await this.executeStep(stepWithoutRetry, ...)";
\* the catch block runs only if that call throws
RetryAttempt ==
  /\ pc = "retryAttempt"
  /\ \E outcome \in DispatchOutcomes(Workflow.steps[i]) :
       LET r == ExecuteStep(StepWithoutRetry(Workflow.steps[i]), outcome)
       IN /\ tries' = tries + 1
          /\ dispatchFailed' = (dispatchFailed \/ outcome # "ok")
          /\ IF r.status = "retry"
             THEN /\ attempt' = attempt + 1
                  /\ pc' = "retryStep"
                  /\ UNCHANGED pending
             ELSE /\ pending' = r
                  /\ pc' = "record"
                  /\ UNCHANGED attempt
  /\ UNCHANGED <<workflows, workflowName, i, status, steps, thrown, waits,
                 context, initialContext>>
  /\ UNCHANGED <<parallelVars, cacheVars, registryVars, dispatchVars,
               serverVars, processVars, resilientVars, queueVars>>

\* execute, lines 45-79 and 87-93: push the StepResult, then flow control
RecordStep ==
  /\ pc = "record"
  /\ LET log == Push(Workflow, steps, pending)
         flow == FlowControl(Workflow, i, pending, log)
     IN /\ steps' = log
        /\ context' = MergeOutput(context, pending.output)
        /\ CASE flow.kind = "fail" ->
                  /\ status' = "failed"
                  /\ pc' = "finish"
                  /\ UNCHANGED <<i, thrown>>
             [] flow.kind = "throw" ->
                  /\ status' = ErrorStatus
                  /\ thrown' = "StepNotFound"
                  /\ pc' = "thrown"
                  /\ UNCHANGED i
             [] flow.kind = "break" ->
                  /\ pc' = "finish"
                  /\ UNCHANGED <<i, status, thrown>>
             [] flow.kind = "goto" ->
                  /\ i' = flow.next
                  /\ pc' = LoopTest(Workflow, flow.next)
                  /\ UNCHANGED <<status, thrown>>
  /\ pending' = NoResult
  /\ attempt' = 0
  /\ tries' = 0
  /\ waits' = <<>>
  /\ UNCHANGED <<workflows, workflowName, dispatchFailed, initialContext>>
  /\ UNCHANGED <<parallelVars, cacheVars, registryVars, dispatchVars,
               serverVars, processVars, resilientVars, queueVars>>

\* execute, lines 81-85: settle the status and return the Execution
Complete ==
  /\ pc = "finish"
  /\ status' = CompletedStatus(status)
  /\ pc' = "returned"
  /\ UNCHANGED <<workflows, workflowName, i, steps, thrown, pending, attempt,
                 tries, waits, dispatchFailed, context, initialContext>>
  /\ UNCHANGED <<parallelVars, cacheVars, registryVars, dispatchVars,
               serverVars, processVars, resilientVars, queueVars>>

Next ==
  \/ Execute
  \/ ExecuteStepCall
  \/ RetryDelay
  \/ RetryAttempt
  \/ RecordStep
  \/ Complete

Spec == Init /\ [][Next]_vars

\* every call of execute keeps running: each await of a dispatch or a delay returns
FairSpec == Init /\ [][Next]_vars /\ WF_vars(Next)

\* ------------------------------ workflows with conditions, outputs, contexts
\* a step that sets no optional field
BaseStep(k) ==
  [name |-> k, agent |-> "gemini", stopOnError |-> FALSE, validate |-> FALSE,
   retry |-> NoRetry, loop_to |-> 0, onSuccess |-> 0, onFailure |-> 0,
   condition |-> "none", parallel |-> FALSE, mode |-> "none", agentList |-> <<>>]

ContextLengths == {1, 2}

\* the step definitions at position k of these workflows: a named agent or
\* none, with a condition or a validator; an array of agents; a validator
\* with the failure rules
ContextSteps(n, k) ==
  {[BaseStep(k) EXCEPT !.agent = a, !.condition = c, !.validate = v] :
     a \in {"gemini", "claude", "none"}, c \in Conditions, v \in BOOLEAN}
  \cup
  {[BaseStep(k) EXCEPT !.agent = "array", !.parallel = p, !.mode = m,
                       !.agentList = l] :
     p \in BOOLEAN, m \in Modes, l \in {<<"claude", "gemini">>, <<"ghost">>}}
  \cup
  {[BaseStep(k) EXCEPT !.validate = TRUE, !.stopOnError = s, !.onFailure = t,
                       !.retry = r] :
     s \in BOOLEAN, t \in Targets(n),
     r \in {NoRetry, [attempts |-> 1, delay |-> 100, backoffFactor |-> 2]}}

\* the objects a caller passes as initialContext
InitialContexts ==
  {NoProperties,
   [k \in {"flag"} |-> StringValue("on")],
   [k \in {"0", "lang"} |-> IF k = "0" THEN StringValue("z") ELSE StringValue("js")]}

InitContext ==
  /\ \E n \in ContextLengths :
       \E list \in [1..n -> UNION {ContextSteps(n, k) : k \in 1..n}] :
         /\ \A k \in 1..n : list[k].name = k
         /\ workflows = [name \in {"wf"} |-> [steps |-> list, maxIterations |-> 0]]
  /\ workflowName = "wf"
  /\ initialContext \in InitialContexts
  /\ context = NoProperties
  /\ pc = "idle"
  /\ i = 0
  /\ status = "none"
  /\ steps = <<>>
  /\ thrown = "none"
  /\ pending = NoResult
  /\ attempt = 0
  /\ tries = 0
  /\ waits = <<>>
  /\ dispatchFailed = FALSE
  /\ parallelIdle
  /\ cacheIdle
  /\ registryIdle
  /\ dispatchIdle
  /\ othersIdle

SpecContext == InitContext /\ [][Next]_vars

\* ------------------------------------ MultiAgentOrchestrator.executeParallel
ParallelAgents == {"claude", "gemini", "ghost"}
\* what an agent's process can print before it exits with code 0: stdout.trim(),
\* the empty string included
Outputs == {"", "a", "b"}

\* JavaScript truthiness of an element of the results array: the tagged
\* error object is truthy, an output string is truthy unless it is empty
Truthy(entry) == entry.error \/ entry.output # ""

\* "results.find(r => !r.error) || results[0]": find yields the first element
\* without an error property, "||" replaces a falsy one by results[0]
FirstNonError(results) ==
  IF \E k \in 1..Len(results) : ~results[k].error
  THEN LET found == results[CHOOSE k \in 1..Len(results) :
                              /\ ~results[k].error
                              /\ \A j \in 1..(k - 1) : results[j].error]
       IN IF Truthy(found) THEN found ELSE results[1]
  ELSE results[1]

\* handleOrchestrateParallel: finalResult (a single result is held as a
\* one-element list)
FinalResult(m, results) ==
  IF m = "race" THEN <<FirstNonError(results)>>
  ELSE IF m = "vote" THEN <<results[1]>>
  ELSE results

NoResponse == [success |-> FALSE, error |-> "none", results |-> <<>>, totalResults |-> 0]

\* the outcome of agent.execute for each requested name; a name without a
\* registered agent is never dispatched
OutcomesFor(names) ==
  {o \in [1..Len(names) -> Outputs \cup {"fail"}] :
     \A k \in 1..Len(names) : names[k] \notin RegisteredAgents => o[k] = "fail"}

engineOff ==
  /\ workflows = [n \in {"wf"} |->
       [steps |-> <<[name |-> 1, agent |-> "gemini", stopOnError |-> FALSE,
                     validate |-> FALSE, retry |-> NoRetry, loop_to |-> 0,
                     onSuccess |-> 0, onFailure |-> 0, condition |-> "none",
                     parallel |-> FALSE, mode |-> "none", agentList |-> <<>>]>>,
        maxIterations |-> 0]]
  /\ workflowName = "wf"
  /\ pc = "off"
  /\ i = 0
  /\ status = "none"
  /\ steps = <<>>
  /\ thrown = "none"
  /\ pending = NoResult
  /\ attempt = 0
  /\ tries = 0
  /\ waits = <<>>
  /\ dispatchFailed = FALSE
  /\ context = NoProperties
  /\ initialContext = NoProperties

InitParallel ==
  /\ engineOff
  /\ \E n \in 1..MaxAgents :
       /\ agentNames \in [1..n -> ParallelAgents]
       /\ outcomes \in OutcomesFor(agentNames)
  /\ mode \in Modes
  /\ settleOrder = <<>>
  /\ parPc = "request"
  /\ response = NoResponse
  /\ cacheIdle
  /\ registryIdle
  /\ dispatchIdle
  /\ othersIdle

\* handleOrchestrateParallel calls executeParallel (part_011 lines 48-61):
\* it throws when no requested name is registered, else dispatches
ExecuteParallel ==
  /\ parPc = "request"
  /\ IF \A k \in 1..Len(agentNames) : agentNames[k] \notin RegisteredAgents
     THEN /\ response' = [NoResponse EXCEPT !.error = "NoValidAgents"]
          /\ parPc' = "responded"
     ELSE /\ parPc' = "pending"
          /\ UNCHANGED response
  /\ UNCHANGED <<agentNames, mode, outcomes, settleOrder>>
  /\ UNCHANGED <<engineVars, cacheVars, registryVars, dispatchVars,
               serverVars, processVars, resilientVars, queueVars>>

\* the request positions executeParallel has dispatched an agent for
Dispatched(names) == {k \in 1..Len(names) : names[k] \in RegisteredAgents}

Settled(order) == {order[k] : k \in 1..Len(order)}

\* one of the promises of lines 56-61 settles: the agent's execute resolves,
\* or it rejects and the catch handler turns the error into a tagged entry
Settle ==
  /\ parPc = "pending"
  /\ \E k \in Dispatched(agentNames) \ Settled(settleOrder) :
       settleOrder' = Append(settleOrder, k)
  /\ UNCHANGED <<agentNames, mode, outcomes, parPc, response>>
  /\ UNCHANGED <<engineVars, cacheVars, registryVars, dispatchVars,
               serverVars, processVars, resilientVars, queueVars>>

\* Promise.all resolves once every promise has settled;
\* handleOrchestrateParallel aggregates and returns
Respond ==
  /\ parPc = "pending"
  /\ Settled(settleOrder) = Dispatched(agentNames)
  /\ LET results == ExecuteParallelResults(agentNames, outcomes)
     IN response' = [success |-> TRUE, error |-> "none",
                     results |-> FinalResult(mode, results),
                     totalResults |-> Len(results)]
  /\ parPc' = "responded"
  /\ UNCHANGED <<agentNames, mode, outcomes, settleOrder>>
  /\ UNCHANGED <<engineVars, cacheVars, registryVars, dispatchVars,
               serverVars, processVars, resilientVars, queueVars>>

NextParallel == ExecuteParallel \/ Settle \/ Respond

SpecParallel == InitParallel /\ [][NextParallel]_vars

\* ------------------------------------------------------------ ResponseCache
CacheKeys == 1..(MaxSize + 1)
CacheValues == {"", "v"}

\* constructor options: a ttl of MaxTtl ticks and every size up to MaxSize
CacheOptions == [ttl : {MaxTtl}, maxSize : 1..MaxSize]

KeySet(c) == {c[j].key : j \in 1..Len(c)}

\* Map.get
Item(c, k) == c[CHOOSE j \in 1..Len(c) : c[j].key = k]

\* Map.delete
Delete(c, k) == SelectSeq(c, LAMBDA e : e.key # k)

\* variant: the comparison written the wrong way round
ExpiredInverted(t, item) == t < item.expires

\* "Date.now() > item.expires"
Expired(t, item) == t > item.expires

\* variant: the size test written with ">" in place of ">="
EvictNeededExclusive(size, limit) == size > limit

\* "if (this.cache.size >= this.maxSize)"
EvictNeeded(size, limit) == size >= limit

\* variant: the entry inserted last is removed
EvictNewest(c) == IF c = <<>> THEN c ELSE SubSeq(c, 1, Len(c) - 1)

\* "firstKey = this.cache.keys().next().value; this.cache.delete(firstKey)"
EvictOne(c) == IF c = <<>> THEN c ELSE Tail(c)

\* set, lines 20-34: the Map after the call at time t.  Map.set on a key that
\* is present replaces its value and keeps its place in the iteration order.
CacheSet(c, limit, life, t, k, v) ==
  LET kept == IF EvictNeeded(Len(c), limit) THEN EvictOne(c) ELSE c
      item == [key |-> k, value |-> v, expires |-> t + life, created |-> t,
               hits |-> 0]
  IN IF k \in KeySet(kept)
     THEN [j \in 1..Len(kept) |-> IF kept[j].key = k THEN item ELSE kept[j]]
     ELSE Append(kept, item)

\* cleanup, lines 86-91
CacheCleanup(c, t) == SelectSeq(c, LAMBDA e : ~Expired(t, e))

\* the key a call of set removes to make room (0: none), as set logs it
EvictedKey(c, limit) ==
  LET gone == KeySet(c) \ KeySet(EvictOne(c))
  IN IF EvictNeeded(Len(c), limit) /\ gone # {} THEN CHOOSE k \in gone : TRUE ELSE 0

Poison == <<0>>

\* the insertion order after a step: the keys that stayed, then the key that
\* came in
Inserted(order, stayed, k) ==
  LET surv == SelectSeq(order, LAMBDA x : x \in stayed)
  IN IF k = 0 \/ k \in stayed THEN surv ELSE Append(surv, k)

\* get, lines 39-62: what it returns, the Map after the call, and whether it
\* counts as a hit
CacheGet(c, t, k) ==
  IF k \notin KeySet(c)
  THEN [value |-> Absent, cache |-> c, hit |-> FALSE]
  ELSE IF Expired(t, Item(c, k))
  THEN [value |-> Absent, cache |-> Delete(c, k), hit |-> FALSE]
  ELSE [value |-> Item(c, k).value,
        cache |-> [j \in 1..Len(c) |->
                     IF c[j].key = k THEN [c[j] EXCEPT !.hits = @ + 1] ELSE c[j]],
        hit |-> TRUE]

\* has, lines 64-74
CacheHas(c, t, k) ==
  IF k \notin KeySet(c) THEN [value |-> FALSE, cache |-> c]
  ELSE IF Expired(t, Item(c, k)) THEN [value |-> FALSE, cache |-> Delete(c, k)]
  ELSE [value |-> TRUE, cache |-> c]

\* The keys a call is made with.  The cache treats keys as opaque, so of the
\* keys the state holds no trace of, a call uses the least one.
KnownKeys == KeySet(cache) \cup ({setLog[j] : j \in 1..Len(setLog)} \ {0})

CallKeys ==
  LET fresh == CacheKeys \ KnownKeys
  IN KnownKeys \cup {k \in fresh : \A j \in fresh : k <= j}

\* setLog after a call that removed an entry other than by eviction or clear
Removed(before, after) == IF KeySet(after) = KeySet(before) THEN setLog ELSE Poison

InitCache ==
  /\ engineOff
  /\ parallelIdle
  /\ registryIdle
  /\ dispatchIdle
  /\ othersIdle
  /\ cache = <<>>
  /\ \E o \in CacheOptions :
       /\ ttl = o.ttl
       /\ maxSize = o.maxSize
  /\ hits = 0
  /\ misses = 0
  /\ now = 0
  /\ fifo = <<>>
  /\ setLog = <<>>

\* fifo and setLog after a call of set with key k
FifoAfterSet(k) == Inserted(fifo, KeySet(cache) \ {EvictedKey(cache, maxSize)}, k)

SetLogAfterSet(k) ==
  IF \/ setLog = Poison
     \/ Len(setLog) > maxSize
     \/ k \in {setLog[j] : j \in 1..Len(setLog)}
  THEN Poison ELSE Append(setLog, k)

\* ResponseCache.set
Set ==
  /\ \E k \in CallKeys, v \in CacheValues :
       /\ cache' = CacheSet(cache, maxSize, ttl, now, k, v)
       /\ fifo' = FifoAfterSet(k)
       /\ setLog' = SetLogAfterSet(k)
  /\ UNCHANGED <<ttl, maxSize, hits, misses, now>>
  /\ UNCHANGED <<engineVars, parallelVars, registryVars, dispatchVars,
               serverVars, processVars, resilientVars, queueVars>>

\* ResponseCache.get
Get ==
  /\ hits + misses < MaxReads
  /\ \E k \in CallKeys :
       LET got == CacheGet(cache, now, k)
       IN /\ cache' = got.cache
          /\ hits' = hits + Bit(got.hit)
          /\ misses' = misses + Bit(~got.hit)
          /\ fifo' = Inserted(fifo, KeySet(got.cache), 0)
          /\ setLog' = Removed(cache, got.cache)
  /\ UNCHANGED <<ttl, maxSize, now>>
  /\ UNCHANGED <<engineVars, parallelVars, registryVars, dispatchVars,
               serverVars, processVars, resilientVars, queueVars>>

\* ResponseCache.has
Has ==
  /\ \E k \in CallKeys :
       LET had == CacheHas(cache, now, k)
       IN /\ cache' = had.cache
          /\ fifo' = Inserted(fifo, KeySet(had.cache), 0)
          /\ setLog' = Removed(cache, had.cache)
  /\ UNCHANGED <<ttl, maxSize, hits, misses, now>>
  /\ UNCHANGED <<engineVars, parallelVars, registryVars, dispatchVars,
               serverVars, processVars, resilientVars, queueVars>>

\* ResponseCache.clear
Clear ==
  /\ cache' = <<>>
  /\ fifo' = <<>>
  /\ setLog' = <<>>
  /\ UNCHANGED <<ttl, maxSize, hits, misses, now>>
  /\ UNCHANGED <<engineVars, parallelVars, registryVars, dispatchVars,
               serverVars, processVars, resilientVars, queueVars>>

\* ResponseCache.cleanup (also run by the interval of startCleanupInterval)
Cleanup ==
  /\ cache' = CacheCleanup(cache, now)
  /\ fifo' = Inserted(fifo, KeySet(CacheCleanup(cache, now)), 0)
  /\ setLog' = Removed(cache, CacheCleanup(cache, now))
  /\ UNCHANGED <<ttl, maxSize, hits, misses, now>>
  /\ UNCHANGED <<engineVars, parallelVars, registryVars, dispatchVars,
               serverVars, processVars, resilientVars, queueVars>>

\* the clock advances
Tick ==
  /\ now < MaxTime
  /\ now' = now + 1
  /\ UNCHANGED <<cache, ttl, maxSize, hits, misses, fifo, setLog>>
  /\ UNCHANGED <<engineVars, parallelVars, registryVars, dispatchVars,
               serverVars, processVars, resilientVars, queueVars>>

NextCache == Set \/ Get \/ Has \/ Clear \/ Cleanup \/ Tick

SpecCache == InitCache /\ [][NextCache]_vars

\* ------------------------------------------------------------ AgentRegistry
AgentObjects == {"claude", "gemini"}

\* the capability table of handleGetCapabilities, scores in hundredths
CapabilityTable ==
  <<[name |-> "claude",
     capabilities |-> [planning |-> 95, execution |-> 85, review |-> 90,
                       contextWindow |-> 200000,
                       languages |-> {"python", "javascript", "go"}]],
    [name |-> "gemini",
     capabilities |-> [planning |-> 85, execution |-> 95, review |-> 80,
                       contextWindow |-> 1000000,
                       languages |-> {"python", "javascript", "java"}]]>>

\* the capability objects agents are registered with: those of the agent
\* configurations and those with a context window and languages
CapabilitySets ==
  {ClaudeCapabilities, GeminiCapabilities}
    \cup {CapabilityTable[j].capabilities : j \in 1..Len(CapabilityTable)}

NameSet(reg) == {reg[j].name : j \in 1..Len(reg)}

\* getAgent
GetAgent(reg, name) ==
  IF name \in NameSet(reg)
  THEN reg[CHOOSE j \in 1..Len(reg) : reg[j].name = name].agent
  ELSE "undefined"

\* variant: the check for a registered name is missing, Map.set replaces the entry
RegisterOverwrites(reg, name, agent, capabilities) ==
  [agents |-> IF name \in NameSet(reg)
              THEN [j \in 1..Len(reg) |->
                      IF reg[j].name = name
                      THEN [name |-> name, agent |-> agent,
                            capabilities |-> capabilities]
                      ELSE reg[j]]
              ELSE Append(reg, [name |-> name, agent |-> agent,
                                capabilities |-> capabilities]),
   threw |-> FALSE]

\* register, lines 12-17: the Map after the call and whether the call threw
RegistryRegister(reg, name, agent, capabilities) ==
  IF name \in NameSet(reg)
  THEN [agents |-> reg, threw |-> TRUE]
  ELSE [agents |-> Append(reg, [name |-> name, agent |-> agent,
                                capabilities |-> capabilities]),
        threw |-> FALSE]

\* requirements.role indexes the capabilities object
RoleCapability(capabilities, role) ==
  IF role = "planning" THEN capabilities.planning
  ELSE IF role = "execution" THEN capabilities.execution
  ELSE IF role = "review" THEN capabilities.review
  ELSE 0

\* calculateScore, in hundredths; requirements.given is FALSE for a call
\* without requirements, "none" and 0 stand for absent fields
CalculateScore(capabilities, requirements) ==
  IF ~requirements.given THEN 100
  ELSE (IF requirements.role # "none"
        THEN RoleCapability(capabilities, requirements.role) * 10 ELSE 0)
       + (IF requirements.language # "none"
             /\ requirements.language \in capabilities.languages
          THEN 500 ELSE 0)
       + (IF requirements.contextSize # 0
             /\ capabilities.contextWindow >= requirements.contextSize
          THEN 300 ELSE 0)
       + (IF requirements.complexity = "high" /\ capabilities.planning > 90
          THEN 200
          ELSE IF requirements.complexity = "low" /\ capabilities.execution > 90
          THEN 200 ELSE 0)

\* variant: the loop replaces the best agent on an equal score too
BeatsOrTies(score, highestScore) == score >= highestScore

\* "score > highestScore", line 84
Beats(score, highestScore) == score > highestScore

\* the loop of selectBestAgent from entry j on, lines 82-88; highestScore
\* starts at -1, in hundredths
RECURSIVE SelectLoop(_, _, _, _, _)
SelectLoop(reg, requirements, j, bestAgent, highestScore) ==
  IF j > Len(reg) THEN bestAgent
  ELSE LET score == CalculateScore(reg[j].capabilities, requirements)
       IN IF Beats(score, highestScore)
          THEN SelectLoop(reg, requirements, j + 1, reg[j].agent, score)
          ELSE SelectLoop(reg, requirements, j + 1, bestAgent, highestScore)

\* selectBestAgent, lines 74-96
SelectBestAgent(reg, requirements) ==
  IF reg = <<>> THEN "null"
  ELSE LET bestAgent == SelectLoop(reg, requirements, 1, "null", -100)
       IN IF bestAgent = "null" THEN reg[1].agent ELSE bestAgent

\* the requirement objects calls are made with; {} is the one of all fields absent
RequirementSets ==
  {NoRequirements} \cup
  [given : {TRUE}, role : {"none", "planning", "execution", "execute"},
   language : {"none", "java"}, contextSize : {0, 1000000},
   complexity : {"none", "high", "low"}]

\* a new AgentRegistry
InitRegistry ==
  /\ engineOff
  /\ parallelIdle
  /\ cacheIdle
  /\ dispatchIdle
  /\ othersIdle
  /\ agents = <<>>
  /\ firstRegistered = [n \in AgentNames |-> "undefined"]
  /\ lastRegister = NoRegister

\* AgentRegistry.register
Register ==
  /\ \E name \in AgentNames, agent \in AgentObjects, capabilities \in CapabilitySets :
       LET done == RegistryRegister(agents, name, agent, capabilities)
       IN /\ agents' = done.agents
          /\ lastRegister' = [name |-> name, agent |-> agent, threw |-> done.threw]
          /\ firstRegistered' =
               IF firstRegistered[name] = "undefined"
               THEN [firstRegistered EXCEPT ![name] = agent]
               ELSE firstRegistered
  /\ UNCHANGED <<engineVars, parallelVars, cacheVars, dispatchVars,
               serverVars, processVars, resilientVars, queueVars>>

NextRegistry == Register

SpecRegistry == InitRegistry /\ [][NextRegistry]_vars

\* --------------------------------------- handleGetCapabilities (MCP server)
\* the requirements objects get_capabilities is called with; a call without
\* requirements gets {} (line 399)
CapabilityRequests ==
  [given : {TRUE},
   role : {"none", "plan", "execute", "review", "planning", "execution"},
   language : {"none", "python", "java", "go"},
   contextSize : {0, 200000, 200001, 1000000, 1000001},
   complexity : {"none"}]

\* the score of lines 427-451, in hundredths
RecommendationScore(capabilities, requirements) ==
  (IF requirements.role # "none"
      /\ RoleCapability(capabilities, requirements.role) # 0
   THEN RoleCapability(capabilities, requirements.role) * 10 ELSE 0)
  + (IF requirements.language # "none"
        /\ requirements.language \in capabilities.languages
     THEN 500 ELSE 0)
  + (IF requirements.contextSize # 0
        /\ capabilities.contextWindow >= requirements.contextSize
     THEN 300 ELSE 0)

\* one element of the map of lines 426-460; warning: warnings is not empty
Recommend(entry, requirements) ==
  [agent |-> entry.name,
   score |-> RecommendationScore(entry.capabilities, requirements),
   warning |-> /\ requirements.contextSize # 0
               /\ entry.capabilities.contextWindow < requirements.contextSize,
   capabilities |-> entry.capabilities]

\* Array.prototype.sort with (a, b) => b.score - a.score: stable, descending
RECURSIVE InsertByScore(_, _)
InsertByScore(sorted, rec) ==
  IF sorted = <<>> THEN <<rec>>
  ELSE IF sorted[Len(sorted)].score >= rec.score THEN Append(sorted, rec)
  ELSE Append(InsertByScore(SubSeq(sorted, 1, Len(sorted) - 1), rec),
              sorted[Len(sorted)])

RECURSIVE SortByScore(_)
SortByScore(recs) ==
  IF recs = <<>> THEN <<>>
  ELSE InsertByScore(SortByScore(SubSeq(recs, 1, Len(recs) - 1)), recs[Len(recs)])

\* handleGetCapabilities: the recommendations of the reply
HandleGetCapabilities(requirements) ==
  SortByScore([j \in 1..Len(CapabilityTable) |->
                 Recommend(CapabilityTable[j], requirements)])

\* an MCP server that has answered no get_capabilities call
InitServer ==
  /\ engineOff
  /\ parallelIdle
  /\ cacheIdle
  /\ registryIdle
  /\ dispatchIdle
  /\ othersIdle

\* a get_capabilities call
GetCapabilities ==
  /\ \E requirements \in CapabilityRequests :
       capReply' = [requirements |-> requirements,
                    recommendations |-> HandleGetCapabilities(requirements)]
  /\ UNCHANGED <<engineVars, parallelVars, cacheVars, registryVars, dispatchVars,
                 processVars, resilientVars, queueVars>>

NextServer == GetCapabilities

SpecServer == InitServer /\ [][NextServer]_vars

\* ------------------------------------- process adapters and ProcessMonitor
\* the adapters: UniversalCLI.executeInternal/collectOutput ("universal"),
\* GeminiChatManager.executeGeminiCommand ("chat") and
\* GeminiExecutor.executeGeminiCommand ("executor")
Adapters == {"universal", "chat", "executor"}

\* the pids of the children, in the order they are spawned; no pid is reused
Pids == {1, 2}

\* the %CPU column of ps for a process
CpuReadings == {MaxCpuUsage, MaxCpuUsage + 1}

\* the exit code the close event carries; -1 stands for null (ended by a signal)
BySignal == -1

\* a child right after spawn, with the call that owns it
NewChild(adapter) ==
  [adapter |-> adapter, state |-> "running", code |-> 0, stdout |-> "", killed |-> FALSE,
   result |-> "pending", timer |-> "armed", graceTimer |-> "none",
   completionTimer |-> FALSE, byMonitor |-> FALSE]

\* registerProcess, part_007 lines 32-40
RegisterProcess(table, pid, name, t) ==
  [q \in DOMAIN table \cup {pid} |->
     IF q = pid THEN [name |-> name, startTime |-> t] ELSE table[q]]

\* variant: unregisterProcess empties the table when the pid has no record
UnregisterOrReset(table, pid) ==
  IF pid \in DOMAIN table
  THEN [q \in DOMAIN table \ {pid} |-> table[q]]
  ELSE <<>>

\* unregisterProcess, part_007 lines 42-48
UnregisterProcess(table, pid) ==
  IF pid \in DOMAIN table
  THEN [q \in DOMAIN table \ {pid} |-> table[q]]
  ELSE table

\* what a signal does to a process: SIGKILL ends every live process, SIGTERM
\* one that honours it; "dying" is a process that is about to exit
Signalled(child, signal, honours) ==
  IF child.state = "exited" THEN child
  ELSE IF signal = "SIGKILL" \/ honours
  THEN [child EXCEPT !.state = "dying"]
  ELSE child

\* how a process may respond to SIGTERM: a running one honours it or not, any
\* other has no choice left
Honouring(child) == IF child.state = "running" THEN BOOLEAN ELSE {TRUE}

\* child.kill(signal): delivers the signal and sets child.killed when the
\* process was there to receive it
Kill(child, signal, honours) ==
  [Signalled(child, signal, honours) EXCEPT !.killed = @ \/ child.state # "exited"]

\* variant: a later resolve or reject replaces the outcome of the call
SettleAgain(child, result) == [child EXCEPT !.result = result]

\* resolve or reject of the call's promise: only the first one counts
Settle2(child, result) ==
  IF child.result = "pending" THEN [child EXCEPT !.result = result] ELSE child

\* the name an adapter registers its child under ("none": it registers nothing)
RegisteredName(adapter) ==
  IF adapter = "chat" THEN "gemini-chat"
  ELSE IF adapter = "executor" THEN "gemini"
  ELSE "none"

\* no adapter call has been made and the monitor's table is empty
InitProcess ==
  /\ engineOff
  /\ parallelIdle
  /\ cacheIdle
  /\ registryIdle
  /\ dispatchIdle
  /\ serverIdle
  /\ resilientIdle
  /\ processIdle
  /\ queueIdle

\* an adapter call spawns its child (part_012 lines 139-150, part_003 lines
\* 318-335, gemini-executor.js lines 55-66)
Spawn ==
  /\ Len(children) + 1 \in Pids
  /\ \E adapter \in Adapters :
       LET pid == Len(children) + 1
       IN /\ children' = Append(children, NewChild(adapter))
          /\ activeProcesses' =
               IF RegisteredName(adapter) = "none" THEN activeProcesses
               ELSE RegisterProcess(activeProcesses, pid, RegisteredName(adapter), now)
  /\ UNCHANGED killTimers
  /\ UNCHANGED <<engineVars, parallelVars, cacheVars, registryVars, dispatchVars,
                 serverVars, resilientVars, queueVars>>

\* the stdout 'data' handler: output arrives; the completion detection of
\* the chat manager and of the executor may start its 200 ms timer
Stdout ==
  /\ \E pid \in 1..Len(children), matched \in BOOLEAN :
       LET c == children[pid]
       IN /\ c.state # "exited"
          /\ c.stdout = ""
          /\ children' =
               [children EXCEPT ![pid] =
                  [c EXCEPT !.stdout = "a",
                            !.completionTimer =
                               /\ matched
                               /\ c.adapter # "universal"
                               /\ c.result = "pending"]]
  /\ UNCHANGED <<activeProcesses, killTimers>>
  /\ UNCHANGED <<engineVars, parallelVars, cacheVars, registryVars, dispatchVars,
                 serverVars, resilientVars, queueVars>>

\* the 200 ms timer of the completion detection (part_003 lines 361-366,
\* gemini-executor.js lines 85-92)
CompletionTimer ==
  /\ \E pid \in 1..Len(children) : \E honours \in Honouring(children[pid]) :
       LET c == children[pid]
           off == [c EXCEPT !.completionTimer = FALSE]
       IN /\ c.completionTimer
          /\ IF c.result # "pending"
             THEN /\ children' = [children EXCEPT ![pid] = off]
                  /\ UNCHANGED activeProcesses
             ELSE IF c.adapter = "chat"
             THEN /\ children' = [children EXCEPT ![pid] = Settle2(off, c.stdout)]
                  /\ UNCHANGED activeProcesses
             ELSE /\ children' =
                       [children EXCEPT ![pid] = Settle2(Kill(off, "SIGTERM", honours), c.stdout)]
                  /\ activeProcesses' = UnregisterProcess(activeProcesses, pid)
  /\ UNCHANGED killTimers
  /\ UNCHANGED <<engineVars, parallelVars, cacheVars, registryVars, dispatchVars,
                 serverVars, resilientVars, queueVars>>

\* what the close handler settles the call with
CloseResult(adapter, code, stdout) ==
  IF adapter = "executor"
  THEN (IF code = 0 \/ stdout # "" THEN stdout ELSE "ProcessExitError")
  ELSE (IF code = 0 THEN stdout ELSE "ProcessExitError")

\* the process exits and the 'close' handler runs (part_012 lines 171-178,
\* part_003 lines 376-389, gemini-executor.js lines 120-134)
Close ==
  /\ \E pid \in 1..Len(children), code \in {0, 1} :
       LET c == children[pid]
           exit == IF c.state = "dying" THEN BySignal ELSE code
           gone == [c EXCEPT !.state = "exited", !.code = exit,
                             !.completionTimer = FALSE,
                             !.timer = IF c.adapter = "chat" \/ c.timer = "fired"
                                       THEN c.timer ELSE "cleared"]
       IN /\ c.state # "exited"
          /\ c.state = "dying" => code = 1
          /\ children' =
               [children EXCEPT ![pid] =
                  Settle2(gone, CloseResult(c.adapter, exit, c.stdout))]
          /\ activeProcesses' =
               IF c.adapter = "universal" THEN activeProcesses
               ELSE UnregisterProcess(activeProcesses, pid)
  /\ UNCHANGED killTimers
  /\ UNCHANGED <<engineVars, parallelVars, cacheVars, registryVars, dispatchVars,
                 serverVars, resilientVars, queueVars>>

\* the call's timeout fires before the call has completed (part_012 lines
\* 158-161, part_003 lines 401-422, gemini-executor.js lines 107-118)
Timeout ==
  /\ \E pid \in 1..Len(children) : \E honours \in Honouring(children[pid]) :
       LET c == children[pid]
           fired == [Kill(c, "SIGTERM", honours) EXCEPT !.timer = "fired"]
       IN /\ c.timer = "armed"
          /\ c.result = "pending"
          /\ IF c.adapter = "universal"
             THEN /\ children' = [children EXCEPT ![pid] = Settle2(fired, "TimeoutError")]
                  /\ UNCHANGED activeProcesses
             ELSE IF c.adapter = "chat"
             THEN /\ children' =
                       [children EXCEPT ![pid] =
                          Settle2([fired EXCEPT !.graceTimer = "pending"], "TimeoutError")]
                  /\ UNCHANGED activeProcesses
             ELSE /\ children' =
                       [children EXCEPT ![pid] =
                          Settle2(fired, IF c.stdout # "" THEN c.stdout
                                         ELSE "TimeoutError")]
                  /\ activeProcesses' = UnregisterProcess(activeProcesses, pid)
  /\ UNCHANGED killTimers
  /\ UNCHANGED <<engineVars, parallelVars, cacheVars, registryVars, dispatchVars,
                 serverVars, resilientVars, queueVars>>

\* the 5 s timer the chat manager starts on timeout (part_003 lines 412-418)
GraceTimer ==
  /\ \E pid \in 1..Len(children) :
       LET c == children[pid]
           done == [c EXCEPT !.graceTimer = "done"]
       IN /\ c.graceTimer = "pending"
          /\ children' =
               [children EXCEPT ![pid] =
                  IF ~c.killed THEN Kill(done, "SIGKILL", TRUE) ELSE done]
          /\ activeProcesses' = UnregisterProcess(activeProcesses, pid)
  /\ UNCHANGED killTimers
  /\ UNCHANGED <<engineVars, parallelVars, cacheVars, registryVars, dispatchVars,
                 serverVars, resilientVars, queueVars>>

\* variant: ">=" in place of ">" in the CPU test
HighCpuInclusive(cpu) == cpu >= MaxCpuUsage

\* "cpuUsage > this.maxCpuUsage", part_007 line 67
HighCpu(cpu) == cpu > MaxCpuUsage

\* "age > this.maxProcessAge" of a registered process, part_007 lines 72-78
Aged(table, pid, t) ==
  /\ pid \in DOMAIN table
  /\ t - table[pid].startTime > MaxAge

\* the processes ps lists: the children that have not exited (every child
\* is a node process whose command line names gemini)
Listed == {pid \in 1..Len(children) : children[pid].state # "exited"}

\* the pids checkProcessHealth calls emergencyKill for, given the %CPU
\* readings of the processes listed
Flagged(readings) ==
  {pid \in Listed : HighCpu(readings[pid]) \/ Aged(activeProcesses, pid, now)}

\* the children and the timers after checkProcessHealth: emergencyKill sends
\* "kill pid" to every flagged process and starts a 2 s timer for it
AfterSweep(readings, honouring) ==
  [children |-> [pid \in 1..Len(children) |->
                   IF pid \in Flagged(readings)
                   THEN Signalled(children[pid], "SIGTERM", pid \in honouring)
                   ELSE children[pid]],
   killTimers |-> killTimers \cup Flagged(readings)]

\* checkProcessHealth with emergencyKill up to its timer (part_007 lines 50-114)
Sweep ==
  /\ \E readings \in [Listed -> CpuReadings] :
     \E honouring \in SUBSET {pid \in Flagged(readings) : children[pid].state = "running"} :
       /\ Flagged(readings) # {}
       /\ children' = AfterSweep(readings, honouring).children
       /\ killTimers' = AfterSweep(readings, honouring).killTimers
  /\ UNCHANGED activeProcesses
  /\ UNCHANGED <<engineVars, parallelVars, cacheVars, registryVars, dispatchVars,
                 serverVars, resilientVars, queueVars>>

\* the 2 s timer of emergencyKill (part_007 lines 115-126): "kill -0", then
\* "kill -9" for a process that is still there, then unregisterProcess
KillTimer ==
  /\ \E pid \in killTimers :
       /\ children' =
            [children EXCEPT ![pid] =
               [Signalled(children[pid], "SIGKILL", TRUE) EXCEPT !.byMonitor = TRUE]]
       /\ activeProcesses' = UnregisterProcess(activeProcesses, pid)
       /\ killTimers' = killTimers \ {pid}
  /\ UNCHANGED <<engineVars, parallelVars, cacheVars, registryVars, dispatchVars,
                 serverVars, resilientVars, queueVars>>

NextProcess ==
  Spawn \/ Stdout \/ CompletionTimer \/ Close \/ Timeout \/ GraceTimer
    \/ Sweep \/ KillTimer \/ Tick

SpecProcess == InitProcess /\ [][NextProcess]_vars

\* the child's 'error' event (part_012 lines 180-183, part_003 lines 391-398,
\* gemini-executor.js lines 136-143): the process could not be spawned or
\* signalled; a 'close' event may follow it
ChildError ==
  /\ \E pid \in 1..Len(children) :
       LET c == children[pid]
           seen == [c EXCEPT !.timer = IF c.adapter = "chat" \/ c.timer = "fired"
                                       THEN c.timer ELSE "cleared"]
       IN /\ c.state # "exited"
          /\ children' = [children EXCEPT ![pid] = Settle2(seen, "SpawnError")]
          /\ activeProcesses' =
               IF c.adapter = "universal" THEN activeProcesses
               ELSE UnregisterProcess(activeProcesses, pid)
  /\ UNCHANGED killTimers
  /\ UNCHANGED <<engineVars, parallelVars, cacheVars, registryVars, dispatchVars,
                 serverVars, resilientVars, queueVars>>

\* the adapter calls alone, with every event their handlers listen to
NextAdapter ==
  Spawn \/ Stdout \/ CompletionTimer \/ Close \/ Timeout \/ GraceTimer \/ ChildError

SpecAdapter == InitProcess /\ [][NextAdapter]_vars

\* the monitor beside adapter calls whose children write nothing to stdout
NextMonitor ==
  Spawn \/ Close \/ Timeout \/ GraceTimer \/ Sweep \/ KillTimer \/ Tick

SpecMonitor == InitProcess /\ [][NextMonitor]_vars

\* ------------------------------------------------- ResilientOrchestrator
\* config.maxRetries and config.retryDelay; 0 stands for absent
ResilientConfigs == [maxRetries : 0..MaxRetries, retryDelay : {0, 1, 2}]

\* the messages of the errors LegacyOrchestrator.processUserRequest throws
ErrorMessages == {"planner exited", "executor exited", "timeout"}

\* error.message.includes(word)
Includes(message, word) ==
  \/ word = "planner" /\ message = "planner exited"
  \/ word = "executor" /\ message = "executor exited"

\* the constructor, resilient-orchestrator.js lines 5-9
NewResilient(config) ==
  [NoResilient EXCEPT
     !.maxRetries = IF config.maxRetries = 0 THEN DefaultMaxRetries
                    ELSE config.maxRetries,
     !.retryDelay = IF config.retryDelay = 0 THEN DefaultRetryDelay
                    ELSE config.retryDelay,
     !.pc = "ready"]

\* variant: the wait grows by retryDelay with every attempt
LinearBackoff(n, retryDelay) == (n + 1) * retryDelay

\* "Math.pow(2, i) * this.retryDelay", line 32
Backoff(n, retryDelay) == (2 ^ n) * retryDelay

\* the component the catch block restarts, lines 23-29
Restarted(message) ==
  IF Includes(message, "planner") THEN "planner"
  ELSE IF Includes(message, "executor") THEN "executor"
  ELSE "none"

InitResilient ==
  /\ engineOff
  /\ parallelIdle
  /\ cacheIdle
  /\ registryIdle
  /\ dispatchIdle
  /\ serverIdle
  /\ processIdle
  /\ queueIdle
  /\ resilient \in {NewResilient(config) : config \in ResilientConfigs}

\* processUserRequest is called, lines 11-14
Request ==
  /\ resilient.pc \in {"ready", "done"}
  /\ resilient' =
       [resilient EXCEPT !.pc = "loop", !.i = 0, !.lastError = "undefined",
                         !.attempts = 0, !.errors = <<>>, !.waits = <<>>,
                         !.restarts = <<>>,
                         !.outcome = [kind |-> "none", value |-> "undefined"]]
  /\ UNCHANGED <<engineVars, parallelVars, cacheVars, registryVars, dispatchVars,
                 serverVars, processVars, queueVars>>

\* an iteration whose super.processUserRequest returns, lines 14-17
AttemptReturns ==
  /\ resilient.pc = "loop"
  /\ resilient.i < resilient.maxRetries
  /\ resilient' =
       [resilient EXCEPT !.pc = "done", !.attempts = @ + 1,
                         !.outcome = [kind |-> "return", value |-> "summary"]]
  /\ UNCHANGED <<engineVars, parallelVars, cacheVars, registryVars, dispatchVars,
                 serverVars, processVars, queueVars>>

\* an iteration whose super.processUserRequest throws, lines 14-35
AttemptThrows ==
  /\ resilient.pc = "loop"
  /\ resilient.i < resilient.maxRetries
  /\ \E message \in ErrorMessages :
       resilient' =
         [resilient EXCEPT
            !.attempts = @ + 1,
            !.lastError = message,
            !.errors = Append(@, message),
            !.restarts = Append(@, Restarted(message)),
            !.waits = Append(@, Backoff(resilient.i, resilient.retryDelay)),
            !.i = @ + 1]
  /\ UNCHANGED <<engineVars, parallelVars, cacheVars, registryVars, dispatchVars,
                 serverVars, processVars, queueVars>>

\* the loop is over: "throw lastError", lines 38-39
GiveUp ==
  /\ resilient.pc = "loop"
  /\ ~(resilient.i < resilient.maxRetries)
  /\ resilient' =
       [resilient EXCEPT !.pc = "done",
                         !.outcome = [kind |-> "throw", value |-> resilient.lastError]]
  /\ UNCHANGED <<engineVars, parallelVars, cacheVars, registryVars, dispatchVars,
                 serverVars, processVars, queueVars>>

NextResilient == Request \/ AttemptReturns \/ AttemptThrows \/ GiveUp

SpecResilient == InitResilient /\ [][NextResilient]_vars

\* ------------------------------------------- UniversalCLI.execute, TaskCache
\* options.role; "auto" is the default of a call without a role
Roles == {"auto", "execute", "review"}

\* a text is a sequence of pieces; Tokens lists the pieces that occur
Tokens ==
  <<"p", "Write code for: ", "Be concise and efficient", "Review and improve: ",
    "Focus on quality and best practices", "Review this: ">>

Prompts == {<<"p">>}

\* templates of prompts.js: what is put before and after the prompt
Template(role, cliName) ==
  IF role = "execute" /\ cliName = "claude"
  THEN [prefix |-> <<"Write code for: ">>, suffix |-> <<"Be concise and efficient">>]
  ELSE IF role = "review" /\ cliName = "claude"
  THEN [prefix |-> <<"Review and improve: ">>,
        suffix |-> <<"Focus on quality and best practices">>]
  ELSE IF role = "review" /\ cliName = "gemini"
  THEN [prefix |-> <<"Review this: ">>, suffix |-> <<>>]
  ELSE [prefix |-> <<>>, suffix |-> <<>>]

\* preparePrompt
PreparePrompt(prompt, role, cliName) ==
  Template(role, cliName).prefix \o prompt \o Template(role, cliName).suffix

TokenCode(piece) == CHOOSE j \in 1..Len(Tokens) : Tokens[j] = piece

\* generateKey({prompt}): the digest of the text, distinct for distinct texts
RECURSIVE GenerateKey(_)
GenerateKey(text) ==
  IF text = <<>> THEN 0
  ELSE TokenCode(Head(text)) + (Len(Tokens) + 1) * GenerateKey(Tail(text))

\* getCachedResult: the result of the first entry stored for the prompt that
\* has "Date.now() < item.expires", else null
GetCachedResult(c, t, prompt) ==
  LET live == {j \in 1..Len(c) : c[j].value.task = prompt /\ t < c[j].expires}
  IN IF live = {} THEN Absent
     ELSE c[CHOOSE j \in live : \A h \in live : j <= h].value.result

\* "if (cached) return cached": null and the empty string are falsy
IsCached(cached) == cached # Absent /\ cached # ""

AgentTargets == {"claude", "gemini", "auto", "ghost"}

\* a MultiAgentOrchestrator after its constructor, with its TaskCache
InitDispatch ==
  /\ engineOff
  /\ parallelIdle
  /\ registryIdle
  /\ othersIdle
  /\ cache = <<>>
  /\ \E o \in CacheOptions :
       /\ ttl = o.ttl
       /\ maxSize = o.maxSize
  /\ hits = 0
  /\ misses = 0
  /\ now = 0
  /\ fifo = <<>>
  /\ setLog = <<>>
  /\ cli \in {GetAgent(agents, executorType) : executorType \in RegisteredAgents}
  /\ dPc = "idle"
  /\ call = NoCall
  /\ storedBy = <<>>
  /\ spawned = 0

\* executeWithAgent or executeAuto, then UniversalCLI.execute up to the spawn
\* (part_012 lines 23-39)
Dispatch ==
  /\ dPc = "idle"
  /\ \E target \in AgentTargets, role \in Roles, prompt \in Prompts :
       LET agent == IF target = "auto" THEN cli ELSE GetAgent(agents, target)
           args == [NoCall EXCEPT !.target = target, !.role = role,
                                  !.prompt = prompt]
       IN IF agent = "undefined"
          THEN /\ call' = [args EXCEPT !.result = "AgentNotFound"]
               /\ UNCHANGED <<dPc, spawned>>
          ELSE LET cached == GetCachedResult(cache, now,
                                             PreparePrompt(prompt, role, agent))
               IN IF IsCached(cached)
                  THEN /\ call' = [args EXCEPT !.agent = agent, !.result = cached,
                                               !.fromCache = TRUE]
                       /\ UNCHANGED <<dPc, spawned>>
                  ELSE /\ spawned < MaxSpawns
                       /\ call' = [args EXCEPT !.agent = agent,
                                               !.result = "pending", !.spawn = TRUE]
                       /\ dPc' = "running"
                       /\ spawned' = spawned + 1
  /\ UNCHANGED <<cli, storedBy>>
  /\ UNCHANGED <<engineVars, parallelVars, cacheVars, registryVars,
               serverVars, processVars, resilientVars, queueVars>>

\* variant: every end of the process counts as a result
RejectsNever(outcome) == FALSE

\* how executeInternal ends: it throws when the process failed or timed out
Rejects(outcome) == outcome = "fail"

\* the process closes (part_012 lines 39-55, 171-178): exit code 0 resolves
\* with the trimmed output, which setTask stores; any other end rejects
ProcessExit ==
  /\ dPc = "running"
  /\ \E outcome \in {"", "a", "fail"} :
       IF Rejects(outcome)
       THEN /\ call' = [call EXCEPT !.result = "ProcessError"]
            /\ UNCHANGED <<cache, fifo, setLog, storedBy>>
       ELSE LET final == PreparePrompt(call.prompt, call.role, call.agent)
                key == GenerateKey(final)
            IN /\ call' = [call EXCEPT !.result = outcome]
               /\ cache' = CacheSet(cache, maxSize, ttl, now, key,
                                    [task |-> final, result |-> outcome,
                                     timestamp |-> now])
               /\ fifo' = FifoAfterSet(key)
               /\ setLog' = SetLogAfterSet(key)
               /\ storedBy' = [k \in DOMAIN storedBy \cup {key} |->
                                 IF k = key
                                 THEN [agent |-> call.agent, role |-> call.role,
                                       prompt |-> call.prompt]
                                 ELSE storedBy[k]]
  /\ dPc' = "idle"
  /\ UNCHANGED <<ttl, maxSize, hits, misses, now, cli, spawned>>
  /\ UNCHANGED <<engineVars, parallelVars, registryVars,
               serverVars, processVars, resilientVars, queueVars>>

NextDispatch == Dispatch \/ ProcessExit \/ Cleanup \/ Tick

SpecDispatch == InitDispatch /\ [][NextDispatch]_vars

\* the dispatches the orchestrator makes within one reading of the clock
NextExecute == Dispatch \/ ProcessExit

SpecExecute == InitDispatch /\ [][NextExecute]_vars

\* ------------------------------------------------------------ MessageQueue
\* a MessageQueue after its constructor (part_008 lines 131-140); its PQueue
\* runs one task at a time (options.concurrency || 1)
InitQueue ==
  /\ engineOff
  /\ parallelIdle
  /\ cacheIdle
  /\ registryIdle
  /\ dispatchIdle
  /\ serverIdle
  /\ processIdle
  /\ resilientIdle
  /\ messages = <<>>
  /\ waiter = NoWaiter

\* what a message object holds of its processing: nothing yet, the result
\* processMessage returned for it, or the error it threw
NoOutcome == [kind |-> "none", of |-> 0]

\* the first part of enqueue, lines 143-154: the message object is pushed
Enqueue ==
  /\ Len(messages) < MaxMessages
  /\ messages' = Append(messages, [id |-> Len(messages) + 1, status |-> "pending",
                                   outcome |-> NoOutcome])
  /\ UNCHANGED waiter
  /\ UNCHANGED <<engineVars, parallelVars, cacheVars, registryVars, dispatchVars,
                 serverVars, processVars, resilientVars>>

\* the PQueue starts the task of a queued message, of any priority (lines
\* 156-159); no other task is running
StartMessage ==
  /\ \A k \in 1..Len(messages) : messages[k].status # "processing"
  /\ \E k \in 1..Len(messages) :
       /\ messages[k].status = "pending"
       /\ messages' = [messages EXCEPT ![k].status = "processing"]
  /\ UNCHANGED waiter
  /\ UNCHANGED <<engineVars, parallelVars, cacheVars, registryVars, dispatchVars,
                 serverVars, processVars, resilientVars>>

\* emit(event, message) as the listeners of a waitForCompletion call see it
\* (lines 243-258): a listener added with once is removed before it is
\* called, whatever message the event carries; the handler of the message
\* waited for settles the promise and removes the other listener
Emit(w, event, message) ==
  LET listening == IF event = "completed" THEN w.onCompleted ELSE w.onFailed
      taken == IF event = "completed" THEN [w EXCEPT !.onCompleted = FALSE]
               ELSE [w EXCEPT !.onFailed = FALSE]
  IN IF ~listening THEN w
     ELSE IF message.id # w.id THEN taken
     ELSE [taken EXCEPT !.onCompleted = FALSE, !.onFailed = FALSE,
                        !.state = "settled",
                        !.outcome = [kind |-> IF event = "completed" THEN "resolved"
                                              ELSE "rejected",
                                     of |-> message.outcome.of]]

\* processMessage returns or throws (lines 162-175): the message object
\* takes its status and its result or error, and the event is emitted
FinishMessage ==
  /\ \E k \in 1..Len(messages), event \in {"completed", "failed"} :
       LET done == [messages[k] EXCEPT
                      !.status = event,
                      !.outcome = [kind |-> IF event = "completed" THEN "result"
                                            ELSE "error",
                                   of |-> k]]
       IN /\ messages[k].status = "processing"
          /\ messages' = [messages EXCEPT ![k] = done]
          /\ waiter' = Emit(waiter, event, done)
  /\ UNCHANGED <<engineVars, parallelVars, cacheVars, registryVars, dispatchVars,
                 serverVars, processVars, resilientVars>>

\* waitForCompletion(messageId), lines 223-260
WaitForCompletion ==
  /\ waiter = NoWaiter
  /\ \E messageId \in 1..MaxMessages :
       LET called == [NoWaiter EXCEPT !.id = messageId]
       IN waiter' =
            IF messageId > Len(messages)
            THEN [called EXCEPT !.state = "settled",
                                !.outcome = [kind |-> "rejected", of |-> 0]]
            ELSE IF messages[messageId].status = "completed"
            THEN [called EXCEPT !.state = "settled",
                                !.outcome = [kind |-> "resolved", of |-> messageId]]
            ELSE IF messages[messageId].status = "failed"
            THEN [called EXCEPT !.state = "settled",
                                !.outcome = [kind |-> "rejected", of |-> messageId]]
            ELSE [called EXCEPT !.state = "waiting", !.onCompleted = TRUE,
                                !.onFailed = TRUE]
  /\ UNCHANGED messages
  /\ UNCHANGED <<engineVars, parallelVars, cacheVars, registryVars, dispatchVars,
                 serverVars, processVars, resilientVars>>

NextQueue == Enqueue \/ StartMessage \/ FinishMessage \/ WaitForCompletion

SpecQueue == InitQueue /\ [][NextQueue]_vars

\* the PQueue starts every queued task and every processMessage call ends
FairSpecQueue ==
  /\ InitQueue
  /\ [][NextQueue]_vars
  /\ SF_vars(StartMessage)
  /\ WF_vars(FinishMessage)

\* ------------------------------------------------------------- properties
Started == pc \notin {"off", "idle", "rejected"}

StepCount == Len(Workflow.steps)

\* the definition of the step a recorded result belongs to
StepOf(res) == Workflow.steps[res.name]

\* C1: a step with retry policy {attempts = N, delay = D, backoffFactor = F}
\* whose every attempt fails is recorded as failed only after N additional
\* attempts, the k-th of them preceded by a wait of D * F^(k-1).
C1_RetryAttempts ==
  (pc = "record" /\ pending.status = "failed"
     /\ Workflow.steps[i].retry.attempts > 0)
  => LET retryConfig == Workflow.steps[i].retry
     IN /\ tries = retryConfig.attempts + 1
        /\ waits = [k \in 1..retryConfig.attempts |-> DelayMs(retryConfig, k)]

\* C2: under settings.maxIterations = N > 0 no step has more than N
\* StepResults in execution.steps, whatever the outcomes of the attempts.
C2_LoopCap ==
  (Started /\ Workflow.maxIterations > 0)
  => \A name \in 1..StepCount : LoopCount(steps, name) <= Workflow.maxIterations

\* a step has looped back to an earlier step, which has now run N >= 2 times
C2_Witness ==
  /\ Started
  /\ Workflow.maxIterations >= 2
  /\ \E k \in 1..StepCount :
       /\ Workflow.steps[k].loop_to \in 1..(k - 1)
       /\ LoopCount(steps, k) >= 1
       /\ LoopCount(steps, Workflow.steps[k].loop_to) = Workflow.maxIterations

\* C3: when a looping step reaches the iteration cap the execution goes on
\* with the steps after it: it does not return while none of them has run.
C3_CapFallsThrough ==
  ~ /\ pc = "returned"
    /\ steps # <<>>
    /\ LET last == steps[Len(steps)]
       IN /\ last.status = "success"
          /\ StepOf(last).loop_to \in 1..StepCount
          /\ StepOf(last).onSuccess = 0
          /\ Workflow.maxIterations > 0
          /\ LoopCount(steps, last.name) >= Workflow.maxIterations
          /\ last.name < StepCount
          /\ \A later \in (last.name + 1)..StepCount : LoopCount(steps, later) = 0

\* C4: every Execution eventually leaves status "running".
C4_Terminates == (status = "running") ~> (status \in {"completed", "failed", "error"})

\* C5: execution.status starts as "running" and changes at most once, to
\* "completed", "failed" or "error"; a terminal status never changes again.
C5_StatusMonotonic ==
  [][status' # status =>
       \/ status = "none" /\ status' = "running"
       \/ status = "running" /\ status' \in {"completed", "failed", "error"}]_vars

\* execute has returned an Execution it had marked failed
C5_Witness == pc = "returned" /\ status = "failed"

\* a recorded result that failed on a step with stopOnError
FailedStop(k) == steps[k].status = "failed" /\ StepOf(steps[k]).stopOnError

\* C6: the Execution is "failed" exactly when a step with stopOnError was
\* recorded as failed; that StepResult is the last one and nothing is
\* dispatched after it.
C6_FailedIffStopOnError ==
  Started =>
    /\ (status = "failed") <=> (\E k \in 1..Len(steps) : FailedStop(k))
    /\ \A k \in 1..Len(steps) :
         FailedStop(k) => k = Len(steps) /\ pc \in {"finish", "returned"}

\* a failure without stopOnError was passed over, a later one with it ended the run
C6_Witness ==
  /\ pc = "returned"
  /\ Len(steps) >= 2
  /\ FailedStop(Len(steps))
  /\ \E k \in 1..(Len(steps) - 1) : steps[k].status = "failed"

\* a workflow without branch targets, loops or iteration cap
Plain(workflow) ==
  /\ workflow.maxIterations = 0
  /\ \A k \in 1..Len(workflow.steps) :
       /\ workflow.steps[k].loop_to = 0
       /\ workflow.steps[k].onSuccess = 0
       /\ workflow.steps[k].onFailure = 0

\* C7: a plain workflow of K steps whose every dispatch succeeds returns an
\* Execution with exactly K results, one per step in list order, each
\* "success", and status "completed".
C7_PlainRun ==
  (pc = "returned" /\ Plain(Workflow) /\ ~dispatchFailed)
  => /\ Len(steps) = StepCount
     /\ \A k \in 1..StepCount :
          /\ steps[k].name = k
          /\ steps[k].status = "success"
          /\ steps[k].error = "none"
     /\ status = "completed"

\* a plain workflow of at least two steps has run through without a failure
C7_Witness ==
  /\ pc = "returned"
  /\ Plain(Workflow)
  /\ ~dispatchFailed
  /\ StepCount >= 2

\* C8: a step whose agent is not registered is never retried: no retry delay
\* is waited and no second dispatch is attempted.
C8_AgentNotFoundNotRetried ==
  (pc \in {"retryStep", "retryAttempt", "record"}
     /\ Workflow.steps[i].agent \notin RegisteredAgents)
  => tries <= 1 /\ waits = <<>>

\* the result at position k took a loop_to, onSuccess or onFailure target
\* that names no step
TakesMissingTarget(k) ==
  LET res == steps[k]
      step == StepOf(res)
      looping == /\ res.status = "success"
                 /\ step.loop_to # 0
                 /\ \/ Workflow.maxIterations = 0
                    \/ LoopCount(SubSeq(steps, 1, k), res.name) < Workflow.maxIterations
      target == IF looping THEN step.loop_to
                ELSE IF res.status = "success" THEN step.onSuccess
                ELSE IF step.stopOnError THEN 0
                ELSE step.onFailure
  IN target > StepCount

\* C9: an unknown workflow name fails with WorkflowNotFound before anything is
\* dispatched; taking a branch target that names no step fails with
\* StepNotFound, leaves the Execution in status "error" and runs nothing more.
C9_ConfigurationErrors ==
  /\ (workflowName \notin DOMAIN workflows /\ pc # "idle")
     => /\ pc = "rejected"
        /\ thrown = "WorkflowNotFound"
        /\ steps = <<>>
        /\ tries = 0
        /\ ~dispatchFailed
  /\ Started =>
       \A k \in 1..Len(steps) :
         TakesMissingTarget(k) =>
           /\ k = Len(steps)
           /\ pc = "thrown"
           /\ thrown = "StepNotFound"
           /\ status = "error"

\* a second step's branch names no step and execute has thrown
C9_Witness ==
  /\ pc = "thrown"
  /\ Len(steps) >= 2
  /\ TakesMissingTarget(Len(steps))

\* C10: mode "all" with N requested names returns N entries in request order,
\* an error entry for each name that failed or could not be dispatched and a
\* successful entry for each other.
C10_AllKeepsEveryAgent ==
  (parPc = "responded" /\ mode = "all")
  => /\ response.success
     /\ Len(response.results) = Len(agentNames)
     /\ \A k \in 1..Len(agentNames) :
          IF outcomes[k] = "fail"
          THEN response.results[k].error
          ELSE response.results[k] = Entry(agentNames[k], outcomes[k])

\* the request positions whose agent resolved with an output
Succeeded == {k \in Dispatched(agentNames) : outcomes[k] # "fail"}

\* the member of pool whose promise settled first
FirstSettled(pool) ==
  settleOrder[CHOOSE j \in 1..Len(settleOrder) :
                /\ settleOrder[j] \in pool
                /\ \A h \in 1..(j - 1) : settleOrder[h] \notin pool]

\* C11: in mode "race", whenever at least one dispatched agent succeeded, the
\* result returned is a successful one, wherever that agent stands in the list
\* and whenever it finished.
C11_RaceSucceeds ==
  (parPc = "responded" /\ mode = "race" /\ Succeeded # {})
  => response.success /\ ~response.results[1].error

\* C12: mode "race" returns the result of the agent that settled first in
\* time among those that did not error, or the first settled result when
\* every agent errored.
C12_RaceFirstSettled ==
  (parPc = "responded" /\ mode = "race" /\ response.success)
  => LET pool == IF Succeeded # {} THEN Succeeded ELSE Dispatched(agentNames)
         first == FirstSettled(pool)
     IN response.results[1] = Entry(agentNames[first], outcomes[first])

\* number of results equal to v
Count(results, v) == Cardinality({k \in 1..Len(results) : results[k] = v})

\* the results whose value occurs most often
MostFrequent(results) ==
  SelectSeq(results,
            LAMBDA r : \A k \in 1..Len(results) :
                         Count(results, results[k]) <= Count(results, r))

\* C13: mode "vote" returns the result value that occurs most often among the
\* per-agent results; among values of equal highest count it returns the one
\* the race rule picks.
C13_VoteMostFrequent ==
  (parPc = "responded" /\ mode = "vote" /\ response.success)
  => LET results == ExecuteParallelResults(agentNames, outcomes)
     IN response.results[1] = FirstNonError(MostFrequent(results))

\* C17: for every key k and value v, set(k, v) followed at once by get(k)
\* returns v; a get(k) made after more than the TTL has passed since that set
\* returns absent and removes the entry.
C17_RoundTrip ==
  \A k \in CacheKeys, v \in CacheValues :
    LET c == CacheSet(cache, maxSize, ttl, now, k, v)
    IN /\ CacheGet(c, now, k).value = v
       /\ \A t \in (now + ttl + 1)..(now + ttl + MaxTime) :
            LET late == CacheGet(c, t, k)
            IN /\ late.value = Absent
               /\ k \notin KeySet(late.cache)

\* an entry was set and then read within the present tick
C17_Witness ==
  \E j \in 1..Len(cache) : cache[j].created = now /\ cache[j].hits > 0

\* C18: after maxSize + 1 distinct keys were inserted into an empty cache,
\* exactly the first-inserted key is gone; and whenever a set removes an entry
\* to make room for a key, it removes the one inserted first, whichever
\* entries were read.
C18_FifoEviction ==
  [][/\ (setLog' # Poison /\ Len(setLog') = maxSize' + 1)
          => /\ Len(cache') = maxSize'
             /\ KeySet(cache') = {setLog'[j] : j \in 2..Len(setLog')}
     /\ \A k \in KeySet(cache') \ KeySet(cache) :
          \A x \in KeySet(cache) \ KeySet(cache') : x = Head(fifo)]_vars

\* maxSize + 1 distinct keys went in, the first of them was read before it
\* was evicted
C18_Witness ==
  /\ setLog # Poison
  /\ Len(setLog) = maxSize + 1
  /\ maxSize > 1
  /\ hits > 0
  /\ \A j \in 1..Len(cache) : cache[j].hits = 0

\* C19: after any sequence of set, get, has, cleanup and clear the cache holds
\* at most maxSize entries.
C19_SizeBounded == Len(cache) <= maxSize

\* a cache of more than one entry is full after a run of calls in which a
\* read missed and a key was overwritten or removed
C19_Witness ==
  /\ Len(cache) = maxSize
  /\ maxSize > 1
  /\ setLog = Poison
  /\ misses > 0

\* C20: register with a name that is already registered throws and leaves the
\* registry as it was; after any sequence of register calls getAgent(name)
\* returns the agent of the first registration under that name.
C20_RegisterOnce ==
  [][/\ lastRegister'.name \in NameSet(agents)
          => lastRegister'.threw /\ agents' = agents
     /\ \A name \in AgentNames :
          GetAgent(agents', name) = firstRegistered'[name]]_vars

\* a second registration of a name, with another agent, was refused
C20_Witness ==
  /\ lastRegister.threw
  /\ Len(agents) >= 2
  /\ GetAgent(agents, lastRegister.name) # lastRegister.agent

\* C21: with at least one agent registered, selectBestAgent returns, for every
\* requirement set (missing and empty included), a registered agent of the
\* highest score, the earliest registered among those of the highest score,
\* and the first registered one when no score is positive.
C21_SelectBest ==
  agents # <<>>
  => \A r \in RequirementSets :
       LET score == [h \in 1..Len(agents) |->
                       CalculateScore(agents[h].capabilities, r)]
           best == SelectBestAgent(agents, r)
       IN \E j \in 1..Len(agents) :
            /\ best = agents[j].agent
            /\ \A h \in 1..Len(agents) : score[h] <= score[j]
            /\ \A h \in 1..(j - 1) : score[h] < score[j]
            /\ (\A h \in 1..Len(agents) : score[h] <= 0) => j = 1

\* two different agents share the highest score of some request, a positive
\* one, and the selector returns the one registered first
C21_Witness ==
  \E r \in RequirementSets, j, h \in 1..Len(agents) :
    /\ j < h
    /\ agents[j].agent # agents[h].agent
    /\ CalculateScore(agents[j].capabilities, r) > 100
    /\ CalculateScore(agents[j].capabilities, r)
         = CalculateScore(agents[h].capabilities, r)
    /\ \A g \in 1..Len(agents) :
         CalculateScore(agents[g].capabilities, r)
           <= CalculateScore(agents[j].capabilities, r)
    /\ \A g \in 1..(j - 1) :
         CalculateScore(agents[g].capabilities, r)
           < CalculateScore(agents[j].capabilities, r)
    /\ SelectBestAgent(agents, r) = agents[j].agent

\* the capability the specification's role names stand for
CapabilityForRole(capabilities, role) ==
  IF role \in {"plan", "planning"} THEN capabilities.planning
  ELSE IF role \in {"execute", "execution"} THEN capabilities.execution
  ELSE IF role = "review" THEN capabilities.review
  ELSE 0

\* C22: the recommendations of get_capabilities are in non-increasing score
\* order; an agent's score is 10 x its capability for the required role, plus
\* 5 for a supported required language, plus 3 for a context window of at
\* least the required size; an agent with a smaller window carries a warning
\* and, for role 'execute', ranks below an agent with a sufficient window and
\* a high execution score.
C22_Recommendations ==
  LET recs == capReply.recommendations
      r == capReply.requirements
  IN recs # <<>>
     => /\ \A j \in 1..(Len(recs) - 1) : recs[j].score >= recs[j + 1].score
        /\ \A j \in 1..Len(recs) :
             /\ recs[j].score =
                  CapabilityForRole(recs[j].capabilities, r.role) * 10
                  + (IF r.language \in recs[j].capabilities.languages
                     THEN 500 ELSE 0)
                  + (IF r.contextSize # 0
                        /\ recs[j].capabilities.contextWindow >= r.contextSize
                     THEN 300 ELSE 0)
             /\ recs[j].warning
                  <=> (r.contextSize # 0
                       /\ recs[j].capabilities.contextWindow < r.contextSize)
        /\ r.role = "execute"
             => \A j, h \in 1..Len(recs) :
                  (/\ recs[h].warning
                   /\ ~recs[j].warning
                   /\ r.contextSize # 0
                   /\ recs[j].capabilities.execution > 90)
                  => j < h

\* C23: the close handler settles a call that has not timed out by the
\* output, not by the exit code alone: a non-zero exit with output is a
\* success with that output, a non-zero exit without output a ProcessExitError.
C23_ExitByOutput ==
  \A pid \in 1..Len(children) :
    LET c == children[pid]
    IN (c.state = "exited" /\ c.code = 1 /\ c.timer # "fired")
       => c.result = (IF c.stdout # "" THEN c.stdout ELSE "ProcessExitError")

\* C24: a call whose timeout fired has failed with a timeout error and has
\* sent the graceful signal, and once its grace timer is over the process is
\* no longer running, also when it did not honour the graceful signal.
C24_TimeoutKills ==
  \A pid \in 1..Len(children) :
    LET c == children[pid]
    IN c.timer = "fired"
       => /\ c.result = "TimeoutError"
          /\ c.killed
          /\ c.graceTimer # "pending" => c.state # "running"

\* C25: a running child of an adapter call has a record in the monitor's
\* table, and an exited child, its close handler done, has none.
C25_RegisteredWhileAlive ==
  \A pid \in 1..Len(children) :
    /\ children[pid].state = "running" => pid \in DOMAIN activeProcesses
    /\ children[pid].state = "exited" => pid \notin DOMAIN activeProcesses

\* C26: unregisterProcess of a pid without a record changes nothing, a
\* second unregisterProcess of a pid changes nothing more, and every other
\* record stays as it was; when the owning call's close handler and the
\* monitor's force-kill timer have both unregistered a process, in either
\* order, it has no record.
C26_UnregisterIdempotent ==
  /\ \A pid \in Pids :
       LET once == UnregisterProcess(activeProcesses, pid)
       IN /\ pid \notin DOMAIN activeProcesses => once = activeProcesses
          /\ UnregisterProcess(once, pid) = once
          /\ DOMAIN once = DOMAIN activeProcesses \ {pid}
          /\ \A q \in DOMAIN once : once[q] = activeProcesses[q]
  /\ \A pid \in 1..Len(children) :
       (children[pid].state = "exited" /\ children[pid].byMonitor)
       => pid \notin DOMAIN activeProcesses

\* a registered child's close handler and the monitor's timer have both
\* unregistered it while another child keeps its record
C26_Witness ==
  \E pid, q \in 1..Len(children) :
    /\ pid # q
    /\ children[pid].adapter # "universal"
    /\ children[pid].state = "exited"
    /\ children[pid].byMonitor
    /\ pid \notin DOMAIN activeProcesses
    /\ q \in DOMAIN activeProcesses

C28_RetryWrapper ==
  LET r == resilient
  IN /\ r.attempts <= r.maxRetries
     /\ Len(r.waits) = Len(r.errors)
     /\ \A k \in 1..Len(r.waits) :
          /\ k = 1 => r.waits[k] = r.retryDelay
          /\ k > 1 => r.waits[k] = 2 * r.waits[k - 1]
     /\ r.outcome.kind = "return"
          => /\ r.outcome.value = "summary"
             /\ r.attempts = Len(r.errors) + 1
     /\ r.outcome.kind = "throw"
          => /\ r.attempts = r.maxRetries
             /\ Len(r.errors) = r.maxRetries
             /\ r.outcome.value = r.errors[Len(r.errors)]
     /\ r.pc = "done" <=> r.outcome.kind # "none"

\* a call with the default delay returned from its third attempt, after the
\* planner and then the executor had failed
C28_Witness ==
  /\ resilient.outcome.kind = "return"
  /\ resilient.attempts = 3
  /\ resilient.errors = <<"planner exited", "executor exited">>
  /\ resilient.waits = <<DefaultRetryDelay, 2 * DefaultRetryDelay>>

\* C29: the StepResult of a step with retry policy {attempts = N} is "failed"
\* only after the first attempt and all N retries have failed, and "success"
\* after at most N retries, with no error.
C29_FailedOnlyAfterAllRetries ==
  (pc = "record" /\ Workflow.steps[i].retry.attempts > 0)
  => /\ pending.status = "failed" => tries = Workflow.steps[i].retry.attempts + 1
     /\ pending.status = "success"
          => /\ tries <= Workflow.steps[i].retry.attempts + 1
             /\ pending.error = "none"

\* C30: execution.steps changes only when a step has run, by the StepResult
\* of that step being appended to its end; every run of a step appends one
\* StepResult, and the results already there keep their values and order.
C30_AppendOnly ==
  [][/\ steps' # steps => pc = "record"
     /\ (pc = "record" /\ Len(steps) < RunCap(Workflow))
          => /\ steps' = Append(steps, pending)
             /\ pending.name = Workflow.steps[i].name
             /\ pending.status \in {"success", "failed"}]_vars

\* a loop has run a step a second time: the log holds the results of the
\* first step, the second step and the first step again, in that order
C30_Witness ==
  /\ Len(steps) = 3
  /\ Len(steps) < RunCap(Workflow)
  /\ steps[1].name = steps[3].name
  /\ steps[2].name # steps[1].name
  /\ steps[1].status # steps[3].status

\* C31: for a step with loop_to and without stopOnError, a failed StepResult
\* sends the engine to the onFailure target if one is set and to the next step
\* otherwise, never to the loop_to target as such; a successful one below the
\* cap sends it to the loop_to target, whatever onSuccess says.
C31_LoopOnlyOnSuccess ==
  [][(/\ pc = "record"
      /\ Workflow.steps[i].loop_to \in 1..StepCount
      /\ Workflow.steps[i].onFailure \in 0..StepCount
      /\ ~Workflow.steps[i].stopOnError)
     => LET step == Workflow.steps[i]
            below == \/ Workflow.maxIterations = 0
                     \/ LoopCount(steps, step.name) + 1 < Workflow.maxIterations
            branch == IF step.onFailure # 0 THEN step.onFailure ELSE i + 1
        IN /\ pending.status = "failed"
               => IF branch <= StepCount
                  THEN i' = branch /\ pc' = "executeStep"
                  ELSE pc' = "finish"
           /\ (pending.status = "success" /\ below)
               => (i' = step.loop_to /\ pc' = "executeStep")]_vars

\* where the for loop of execute goes on when its variable becomes j
GoesTo(j) ==
  IF j <= StepCount THEN i' = j /\ pc' = "executeStep" ELSE pc' = "finish"

\* C32: when the condition of the step at hand is false on the context, the
\* step is skipped: no dispatch is made, no StepResult is appended, the
\* context stays as it is and the engine goes on with the next step of the list.
C32_SkipsOnFalseCondition ==
  [][(/\ pc = "executeStep"
      /\ \/ Workflow.steps[i].condition = "flag" /\ "flag" \notin DOMAIN context
         \/ Workflow.steps[i].condition = "first" /\ "0" \notin DOMAIN context)
     => /\ steps' = steps
        /\ context' = context
        /\ tries' = 0
        /\ dispatchFailed' = dispatchFailed
        /\ pending' = NoResult
        /\ status' = status
        /\ GoesTo(i + 1)]_vars

\* the first step was skipped for its condition and the second step ran
C32_Witness ==
  /\ pc = "returned"
  /\ StepCount = 2
  /\ Workflow.steps[1].condition = "flag"
  /\ Len(steps) = 1
  /\ steps[1].name = 2
  /\ steps[1].status = "success"
  /\ "flag" \notin DOMAIN context

\* C33: a dispatch result the validator rejects makes a failed StepResult
\* without output; recording it leaves the context as it is and applies the
\* failure rules: stopOnError ends the execution as failed, otherwise the
\* engine goes to the onFailure target or, without one, to the next step.
C33_ValidatorRejects ==
  [][/\ (pc = "executeStep" /\ Workflow.steps[i].validate)
          => LET r == ExecuteStep(StepWithoutRetry(Workflow.steps[i]), "ValidationFailed")
             IN r.status = "failed" /\ r.output = UndefinedOutput
     /\ (pc = "record" /\ pending.error = "ValidationFailed")
          => LET step == Workflow.steps[i]
             IN /\ pending.status = "failed"
                /\ pending.output = UndefinedOutput
                /\ context' = context
                /\ steps' = Append(steps, pending) \/ Len(steps) = RunCap(Workflow)
                /\ step.stopOnError => (status' = "failed" /\ pc' = "finish")
                /\ (~step.stopOnError /\ step.onFailure \in 1..StepCount)
                     => GoesTo(step.onFailure)
                /\ (~step.stopOnError /\ step.onFailure = 0) => GoesTo(i + 1)]_vars

\* the validator rejected the first run of a step, the engine took its
\* onFailure branch back to it, and the second run succeeded
C33_Witness ==
  /\ Len(steps) = 2
  /\ steps[1].name = 1
  /\ steps[1].error = "ValidationFailed"
  /\ Workflow.steps[1].onFailure = 1
  /\ steps[2].name = 1
  /\ steps[2].status = "success"
  /\ "0" \in DOMAIN context

\* C34: recording a StepResult turns the context into the previous context
\* with the properties of the result's output added, each replacing an
\* earlier property of the same name; every other property keeps its value,
\* a failed result changes nothing, no other step of the engine changes the
\* context, and the caller's initialContext stays as it was passed.
C34_ContextMerge ==
  [][/\ initialContext' = initialContext
     /\ pc = "idle" => (context' = initialContext \/ context' = context)
     /\ pc \notin {"idle", "record"} => context' = context
     /\ pc = "record"
          => LET own == OwnProperties(pending.output)
             IN /\ DOMAIN context' = DOMAIN context \cup DOMAIN own
                /\ \A k \in DOMAIN own : context'[k] = own[k]
                /\ \A k \in DOMAIN context \ DOMAIN own : context'[k] = context[k]
                /\ pending.status = "failed" => context' = context]_vars

\* the outputs "bc" and then "a" were merged into a caller's context that
\* had the properties 0 and lang: 0 was replaced twice, 1 was added and kept,
\* lang was kept, and the caller's object still holds its own value
C34_Witness ==
  /\ DOMAIN initialContext = {"0", "lang"}
  /\ DOMAIN context = {"0", "1", "lang"}
  /\ context["0"] = StringValue("a")
  /\ context["1"] = StringValue("c")
  /\ context["lang"] = StringValue("js")
  /\ initialContext["0"] = StringValue("z")

\* C35: a step whose agent is an array of names, some of them registered, is
\* dispatched to the agents named, and the output of its successful
\* StepResult is the array of all results for mode "all" and a single result
\* for the modes "race" and "vote".
C35_ParallelAggregation ==
  (/\ pc = "record"
   /\ Workflow.steps[i].agent = "array"
   /\ \E k \in 1..Len(Workflow.steps[i].agentList) :
        Workflow.steps[i].agentList[k] \in RegisteredAgents)
  => /\ pending.error # "AgentNotFound"
     /\ (pending.status = "success" /\ Workflow.steps[i].mode = "all")
          => pending.output.kind = "array"
     /\ (pending.status = "success" /\ Workflow.steps[i].mode \in {"race", "vote"})
          => pending.output.kind # "array"

\* C37: the StepResult of a parallel step all of whose agents failed is a
\* failed one.
C37_AllAgentsFailed ==
  (/\ pc = "record"
   /\ Workflow.steps[i].parallel
   /\ Workflow.steps[i].agent = "array"
   /\ pending.output.kind = "array"
   /\ \A k \in 1..Len(pending.output.items) : pending.output.items[k].error)
  => pending.status = "failed"

\* C36: an adapter call settles once: its outcome, once there, is never
\* replaced by a later heuristic timer, close event, error event or timeout;
\* no call is pending after its timeout has fired, after its timer was
\* cleared or after its process has exited.
C36_SettlesOnce ==
  [][\A pid \in 1..Len(children) :
       LET c == children[pid]
           d == children'[pid]
       IN /\ c.result # "pending" => d.result = c.result
          /\ d.timer \in {"fired", "cleared"} => d.result # "pending"
          /\ d.state = "exited" => d.result # "pending"]_vars

\* the timeout failed a chat call whose process ignored SIGTERM; the process
\* had written output and later exited with code 0, and the call is still
\* the timeout failure
C36_Witness ==
  \E pid \in 1..Len(children) :
    /\ children[pid].adapter = "chat"
    /\ children[pid].timer = "fired"
    /\ children[pid].result = "TimeoutError"
    /\ children[pid].stdout = "a"
    /\ children[pid].state = "exited"
    /\ children[pid].code = 0

\* C38: set with a key the cache holds replaces that entry where it is and
\* removes no other entry, whatever the size of the cache: the keys and their
\* order stay, the other entries stay as they are, the key's entry holds the
\* new value.
C38_OverwriteInPlace ==
  \A k \in KeySet(cache), v \in CacheValues :
    LET after == CacheSet(cache, maxSize, ttl, now, k, v)
    IN /\ Len(after) = Len(cache)
       /\ \A j \in 1..Len(cache) :
            /\ after[j].key = cache[j].key
            /\ cache[j].key # k => after[j] = cache[j]
            /\ cache[j].key = k => after[j].value = v

\* C39: a dispatch whose process fails or times out leaves the cache as it
\* was; every entry of the cache holds the output of a process that ended
\* well, and what a dispatch takes from the cache is such an output.
C39_OnlySuccessCached ==
  [][/\ (dPc = "running" /\ dPc' = "idle" /\ call'.result \notin {"", "a"})
          => cache' = cache
     /\ (dPc = "idle" /\ call' # call) => cache' = cache
     /\ \A j \in 1..Len(cache') : cache'[j].value.result \in {"", "a"}
     /\ call'.fromCache => call'.result = "a"]_vars

\* the process of the second dispatch has failed beside a cache that holds
\* the result of the first, and the cache still holds just that result
C39_Witness ==
  /\ dPc = "idle"
  /\ call.result = "ProcessError"
  /\ spawned = 2
  /\ Len(cache) = 1
  /\ cache[1].value.result = "a"
  /\ cache[1].value.task # PreparePrompt(call.prompt, call.role, call.agent)

\* C40: once the message a waitForCompletion call waits for has completed or
\* failed (the call was made for a message the queue knew), the call gets settled with that message's result or error,
\* whatever other messages completed or failed in between.
C40_WaitSettles ==
  \A k \in 1..MaxMessages :
    (/\ waiter.id = k
     /\ waiter.outcome # [kind |-> "rejected", of |-> 0]
     /\ k <= Len(messages)
     /\ messages[k].status \in {"completed", "failed"})
    ~> (/\ waiter.state = "settled"
        /\ waiter.outcome.of = k
        /\ waiter.outcome.kind = IF messages[k].status = "completed"
                                 THEN "resolved" ELSE "rejected")

\* the text the latest dispatch looked up in the cache
CallText(c) == PreparePrompt(c.prompt, c.role, c.agent)

\* C14: a dispatch that finds a live cache entry for its key returns the
\* stored result and spawns no process, whatever the stored result is, an
\* empty output included.
C14_HitSpawnsNothing ==
  [][(dPc = "idle" /\ call' # call /\ call'.agent # "none")
       => \A j \in 1..Len(cache) :
            (cache[j].key = GenerateKey(CallText(call')) /\ now < cache[j].expires)
            => /\ call'.fromCache
               /\ ~call'.spawn
               /\ call'.result = cache[j].value.result
               /\ spawned' = spawned]_vars

\* C15: a result served from the cache was stored by a dispatch with the same
\* agent, role and prompt.
C15_KeyedOnAgentRolePrompt ==
  call.fromCache
  => storedBy[GenerateKey(CallText(call))] =
       [agent |-> call.agent, role |-> call.role, prompt |-> call.prompt]

\* what a dispatch in the given role asks of the agent
RequirementsOf(role) ==
  [given |-> TRUE, role |-> IF role = "auto" THEN "none" ELSE role,
   language |-> "none", contextSize |-> 0, complexity |-> "none"]

\* C16: a dispatch to "auto" invokes the agent selectBestAgent returns for the
\* requirements of the request.
C16_AutoUsesSelector ==
  (call.target = "auto" /\ call.agent # "none")
  => call.agent = SelectBestAgent(agents, RequirementsOf(call.role))

TypeOK ==
  /\ pc \in {"off", "idle", "rejected", "executeStep", "retryStep", "retryAttempt",
             "record", "finish", "returned", "thrown"}
  /\ status \in {"none", "running", "completed", "failed", "error"}
  /\ pc \notin {"idle", "rejected"} => Len(steps) <= RunCap(Workflow)
  /\ parPc \in {"off", "request", "pending", "responded"}

====
